---- MODULE Spec2Model ----
(***************************************************************************)
(* Model of the seance indexing and retrieval engine of geist_agent:       *)
(*   seance/seance_common.py  (hashing, tokenize, greedy_line_chunk)       *)
(*   seance/seance_index.py   (Manifest, connect, build_index)             *)
(*   seance/seance_query.py   (retrieve: BM25 and Jaccard)                 *)
(* Texts are strings; a file's content is the list of its lines.           *)
(***************************************************************************)
EXTENDS Integers, Sequences, FiniteSets, TLC

\* ------------------------------------------------------------------------
\* Bounds of the model
\* ------------------------------------------------------------------------
\* number of timestamps a behaviour may store in the Manifest (one when the
\* Manifest is created, one per build pass)
MaxClock == 4
\* largest k handed to retrieve
MaxK == 2

\* ------------------------------------------------------------------------
\* Generic helpers
\* ------------------------------------------------------------------------
Min(a, b) == IF a <= b THEN a ELSE b
Max(a, b) == IF a >= b THEN a ELSE b

Range(s) == {s[i] : i \in 1..Len(s)}

\* all orderings of a finite set, as sequences without repetition
Orderings(S) ==
    {s \in [1..Cardinality(S) -> S] : \A i, j \in 1..Cardinality(S) : s[i] = s[j] => i = j}

RECURSIVE SumOver(_, _)
SumOver(f, S) ==
    IF S = {} THEN 0
    ELSE LET x == CHOOSE y \in S : TRUE IN f[x] + SumOver(f, S \ {x})

\* s[i-1:j] of Python for 1 <= i: the characters i..j that exist
Slice(s, i, j) == IF i > Min(j, Len(s)) THEN "" ELSE SubSeq(s, i, Min(j, Len(s)))

\* the i-th character, "" past the end
CharAt(s, i) == Slice(s, i, i)

\* ------------------------------------------------------------------------
\* Characters (str.lower, the class [A-Za-z0-9_] of _WORD_RE)
\* ------------------------------------------------------------------------
LowerLetters == "abcdefghijklmnopqrstuvwxyz"
UpperLetters == "ABCDEFGHIJKLMNOPQRSTUVWXYZ"
Digits == "0123456789"

CharsOf(s) == {CharAt(s, i) : i \in 1..Len(s)}

LowerChar(ch) ==
    IF ch \in CharsOf(UpperLetters)
    THEN CharAt(LowerLetters, CHOOSE i \in 1..Len(UpperLetters) : CharAt(UpperLetters, i) = ch)
    ELSE ch

WordChars == CharsOf(LowerLetters) \cup CharsOf(UpperLetters) \cup CharsOf(Digits) \cup {"_"}

IsWordChar(ch) == ch \in WordChars

\* the characters \s matches
IsSpace(ch) == ch \in {" ", "\n", "\t"}

RECURSIVE LowerFrom(_, _)
LowerFrom(s, i) ==
    IF i > Len(s) THEN "" ELSE LowerChar(CharAt(s, i)) \o LowerFrom(s, i + 1)

\* str.lower()
Lower(s) == LowerFrom(s, 1)

\* s[:n] of Python, for any integer n (a negative n counts from the end)
PyPrefix(s, n) ==
    IF n >= 0 THEN Slice(s, 1, n) ELSE Slice(s, 1, Len(s) + n)

\* "\n".join(lines[from-1 : to]) with 1-based inclusive from..to
RECURSIVE JoinLines(_, _, _)
JoinLines(lines, from, to) ==
    IF from > to \/ from > Len(lines) THEN ""
    ELSE IF from = to \/ from = Len(lines) THEN lines[from]
    ELSE lines[from] \o "\n" \o JoinLines(lines, from + 1, to)

\* ------------------------------------------------------------------------
\* seance_common.tokenize
\* ------------------------------------------------------------------------
RECURSIVE TokScan(_, _, _, _)
TokScan(text, i, cur, acc) ==
    IF i > Len(text) THEN (IF cur = "" THEN acc ELSE Append(acc, cur))
    ELSE IF IsWordChar(CharAt(text, i))
         THEN TokScan(text, i + 1, cur \o LowerChar(CharAt(text, i)), acc)
         ELSE TokScan(text, i + 1, "", IF cur = "" THEN acc ELSE Append(acc, cur))

tokenize(text) == TokScan(text, 1, "", <<>>)

\* number of occurrences of tok in a token list
CountTok(toks, tok) == Cardinality({i \in 1..Len(toks) : toks[i] = tok})

\* ------------------------------------------------------------------------
\* seance_common.greedy_line_chunk
\* ------------------------------------------------------------------------
\* inner while loop: the first index i >= start at which the next line no
\* longer fits (0-based indices as in the source; lines[i+1] is Python's
\* lines[i])
\* FillBlock counting the lines without their separator
RECURSIVE FillBlockNoSeparator(_, _, _, _)
FillBlockNoSeparator(lines, i, length, max_chars) ==
    IF i < Len(lines) /\ length + Len(lines[i + 1]) <= max_chars
    THEN FillBlockNoSeparator(lines, i + 1, length + Len(lines[i + 1]), max_chars)
    ELSE i

RECURSIVE FillBlock(_, _, _, _)
FillBlock(lines, i, length, max_chars) ==
    IF i < Len(lines) /\ length + Len(lines[i + 1]) + 1 <= max_chars
    THEN FillBlock(lines, i + 1, length + Len(lines[i + 1]) + 1, max_chars)
    ELSE i

\* ChunkFrom leaving out a line that does not fit into max_chars on its own
RECURSIVE ChunkFromSkipping(_, _, _, _, _)
ChunkFromSkipping(lines, start, max_chars, overlap, chunks) ==
    IF ~(start < Len(lines)) THEN chunks
    ELSE LET i == FillBlock(lines, start, 0, max_chars)
         IN IF i = start
            THEN ChunkFromSkipping(lines, start + 1, max_chars, overlap, chunks)
            ELSE ChunkFromSkipping(lines, i, max_chars, overlap,
                                   Append(chunks, <<start + 1, i, JoinLines(lines, start + 1, i)>>))

RECURSIVE ChunkFrom(_, _, _, _, _)
ChunkFrom(lines, start, max_chars, overlap, chunks) ==
    IF ~(start < Len(lines)) THEN chunks
    ELSE LET filled == FillBlock(lines, start, 0, max_chars)
             empty == filled = start
             i == IF empty THEN start + 1 ELSE filled
             chunk_text == IF empty THEN PyPrefix(lines[start + 1], max_chars)
                           ELSE JoinLines(lines, start + 1, i)
             overlap_lines == Max(0, Min(overlap \div 80, i - start))
             next_start == IF overlap_lines # 0 THEN i - overlap_lines ELSE i
         IN ChunkFrom(lines, Max(next_start, i), max_chars, overlap,
                      Append(chunks, <<start + 1, i, chunk_text>>))

greedy_line_chunk(lines, max_chars, overlap) ==
    ChunkFrom(lines, 0, max_chars, overlap, <<>>)

\* ------------------------------------------------------------------------
\* The indexed directory: paths, file contents, hashes
\* ------------------------------------------------------------------------
Paths == {"a.py", "b.md"}

\* p.suffix.lower()
Ext(p) == IF p = "a.py" THEN ".py" ELSE ".md"

\* p.relative_to(root).parts
Parts(p) == {p}

\* the file contents a path may hold, each given by its lines (splitlines)
Contents == {1, 2, 3}

Text(c) ==
    CASE c = 1 -> <<"def foo(x)", "bar Bar", "Foo(1)">>
      [] c = 2 -> <<"# foo", "x_y(foo, bar1)">>
      [] OTHER -> <<"baz foo">>

\* <<max_chars, overlap>> arguments the build passes may be given
ChunkArgs == {<<12, 150>>, <<40, 0>>}

\* a directory entry: content 0 is "no such file"; readable = FALSE makes
\* read_bytes / read_text raise
NoFile == [c |-> 0, r |-> TRUE]
FileStates == {NoFile} \cup [c : Contents, r : BOOLEAN]

\* hex digest of the file's bytes: one digest per content (sha256 taken as
\* collision free)
sha256_bytes(c) == "h" \o ToString(c)

\* seance_common.file_hash: "" when the file cannot be read
file_hash(f) == IF f.r THEN sha256_bytes(f.c) ELSE ""

\* Python's None, as a value no hash or token equals
None == "<None>"

\* seance_common.read_text_safely: the content read (Text gives its lines),
\* none when the file is unreadable
read_text_safely(f) ==
    IF f.r THEN [none |-> FALSE, content |-> f.c] ELSE [none |-> TRUE, content |-> 0]

SUPPORTED_EXTS ==
    {".py", ".js", ".ts", ".tsx", ".jsx", ".java", ".cs", ".go", ".rs", ".cpp",
     ".c", ".h", ".hpp", ".rb", ".php", ".kt", ".swift",
     ".md", ".rst", ".txt", ".ini", ".json", ".yaml", ".yml", ".toml"}

is_supported(p) == Ext(p) \in SUPPORTED_EXTS

should_ignore(p) ==
    \/ \E part \in Parts(p) : CharAt(part, 1) = "." /\ part # "."
    \/ ".geist" \in Parts(p)

\* env filters (SEANCE_INCLUDE_EXTS / SEANCE_EXCLUDE_EXTS), after
\* _normalize_exts; SEANCE_IGNORE_GLOBS is left unset
DefaultEnv == [include_exts |-> {}, exclude_exts |-> {}]
EnvConfigs ==
    {DefaultEnv,
     [include_exts |-> {".py"}, exclude_exts |-> {}],
     [include_exts |-> {}, exclude_exts |-> {".py"}]}

_skip_by_env(p, e) ==
    LET special_name == Lower(p) IN
    \/ e.include_exts # {} /\ ~(Ext(p) \in e.include_exts \/ special_name \in e.include_exts)
    \/ e.include_exts = {} /\ (Ext(p) \in e.exclude_exts \/ special_name \in e.exclude_exts)

\* the paths that get past the filters of lines 201-216, per env, computed once
PassesFilters ==
    [e \in EnvConfigs |->
        {p \in Paths : ~_skip_by_env(p, e) /\ is_supported(p) /\ ~should_ignore(p)}]

\* the files one pass of build_index gets past lines 201-216 with
Scannable(dir, e) == {p \in PassesFilters[e] : dir[p].c # 0}

\* greedy_line_chunk and tokenize applied to every content under every
\* (max_chars, overlap), computed once: per span [start_line, end_line, toks]
ChunkTable ==
    [c \in Contents |->
        [a \in ChunkArgs |->
            LET spans == greedy_line_chunk(Text(c), a[1], a[2])
            IN [n \in 1..Len(spans) |->
                    [start_line |-> spans[n][1], end_line |-> spans[n][2],
                     toks |-> tokenize(spans[n][3])]]]]

\* seance_common.make_chunk_id
make_chunk_id(start_line, end_line, fh) ==
    fh \o ":" \o ToString(start_line) \o ":" \o ToString(end_line)

\* ------------------------------------------------------------------------
\* Manifest and Inverted Index values
\* ------------------------------------------------------------------------
EmptyFn == [x \in {} |-> 0]

Drop(f, K) == [x \in DOMAIN f \ K |-> f[x]]

\* dict.get(key)
Get(f, key) == IF key \in DOMAIN f THEN f[key] ELSE None

NewManifest(now) ==
    [created_at |-> now, updated_at |-> now, files |-> EmptyFn, chunks |-> EmptyFn]

IndexedChunk(cid, rel, start_line, end_line, chash) ==
    [id |-> cid, file |-> rel, start_line |-> start_line, end_line |-> end_line,
     text_hash |-> chash]

\* chunk ids owned by a file in a Manifest
OwnedBy(man, rel) == {cid \in DOMAIN man.chunks : man.chunks[cid].file = rel}

\* chunk ids that occur in some posting
PostedCids(inverted) == UNION {DOMAIN inverted[tok] : tok \in DOMAIN inverted}

\* lines 263-265: one chunk's tokens counted into the postings
AddPostings(inverted, cid, toks) ==
    LET new == Range(toks)
        old(tok) == IF tok \in DOMAIN inverted THEN inverted[tok] ELSE EmptyFn
        cnt(tok) == IF cid \in DOMAIN old(tok) THEN old(tok)[cid] ELSE 0
    IN [tok \in DOMAIN inverted \cup new |->
          IF tok \in new
          THEN [c \in DOMAIN old(tok) \cup {cid} |->
                  IF c = cid THEN cnt(tok) + CountTok(toks, tok) ELSE old(tok)[c]]
          ELSE inverted[tok]]

\* ------------------------------------------------------------------------
\* build_index: the scan loop (lines 201-268) and the prune (lines 270-279)
\* A scan state is [man, inverted, valid]: the Manifest and Inverted Index in
\* memory and valid_chunks (chunk id -> marked valid this pass).
\* ------------------------------------------------------------------------

\* MarkCached with the marking left out
MarkCachedNothing(s, rel) == s

\* lines 228-233: an unchanged file marks the chunks it owns as valid
MarkCached(s, rel) ==
    [s EXCEPT !.valid =
        [cid \in DOMAIN s.valid \cup OwnedBy(s.man, rel) |->
            IF cid \in OwnedBy(s.man, rel) THEN TRUE ELSE s.valid[cid]]]

\* lines 249-265: the chunks of a re-chunked file go into man.chunks,
\* valid_chunks and the postings, one after the other
RECURSIVE AddChunks(_, _, _, _, _)
AddChunks(s, rel, fh, spans, n) ==
    IF n > Len(spans) THEN s
    ELSE LET start_line == spans[n].start_line
             end_line == spans[n].end_line
             cid == make_chunk_id(start_line, end_line, fh)
             meta == IndexedChunk(cid, rel, start_line, end_line, fh)
             s1 == [man |-> [s.man EXCEPT !.chunks =
                                [c \in DOMAIN s.man.chunks \cup {cid} |->
                                    IF c = cid THEN meta ELSE s.man.chunks[c]]],
                    valid |-> [c \in DOMAIN s.valid \cup {cid} |->
                                    IF c = cid THEN TRUE ELSE s.valid[c]],
                    inverted |-> AddPostings(s.inverted, cid, spans[n].toks)]
         IN AddChunks(s1, rel, fh, spans, n + 1)

\* lines 242-268: a changed, readable file is re-chunked
\* Rechunk that leaves Manifest.files as it was
RechunkNoEntry(s, rel, fh, text, max_chars, overlap) ==
    AddChunks([s EXCEPT !.man.chunks = Drop(s.man.chunks, OwnedBy(s.man, rel))],
              rel, fh, ChunkTable[text][<<max_chars, overlap>>], 1)

Rechunk(s, rel, fh, text, max_chars, overlap) ==
    LET removed == [s EXCEPT !.man.chunks = Drop(s.man.chunks, OwnedBy(s.man, rel))]
        added == AddChunks(removed, rel, fh, ChunkTable[text][<<max_chars, overlap>>], 1)
    IN [added EXCEPT !.man.files =
            [r \in DOMAIN added.man.files \cup {rel} |->
                IF r = rel THEN fh ELSE added.man.files[r]]]

\* ScanFile with the file hash recorded before the file is read
ScanFileHashFirst(s, rel, f, max_chars, overlap) ==
    LET fh == file_hash(f)
        prev_fh == Get(s.man.files, rel)
        file_changed == fh # prev_fh
        text == read_text_safely(f)
        noted == [s EXCEPT !.man.files =
                    [r \in DOMAIN s.man.files \cup {rel} |->
                        IF r = rel THEN fh ELSE s.man.files[r]]]
    IN IF ~file_changed THEN MarkCached(s, rel)
       ELSE IF text.none THEN noted
       ELSE Rechunk(s, rel, fh, text.content, max_chars, overlap)

\* lines 220-268: the loop body for one scanned file
ScanFile(s, rel, f, max_chars, overlap) ==
    LET fh == file_hash(f)
        prev_fh == Get(s.man.files, rel)
        file_changed == fh # prev_fh
        text == read_text_safely(f)
    IN IF ~file_changed THEN MarkCached(s, rel)
       ELSE IF text.none THEN s
       ELSE Rechunk(s, rel, fh, text.content, max_chars, overlap)

RECURSIVE ScanLoop(_, _, _, _, _, _)
ScanLoop(s, order, n, dir, max_chars, overlap) ==
    IF n > Len(order) THEN s
    ELSE ScanLoop(ScanFile(s, order[n], dir[order[n]], max_chars, overlap),
                  order, n + 1, dir, max_chars, overlap)

\* Prune with the postings of stale chunks left in place
PruneManifestOnly(s) ==
    LET stale == {cid \in DOMAIN s.valid : ~s.valid[cid]}
    IN [s EXCEPT !.man.chunks = Drop(s.man.chunks, stale)]

\* lines 270-279: chunks not marked valid leave the Manifest and the postings;
\* a token left without postings is deleted (the deletion of empty tokens runs
\* inside the loop over stale chunks, so only when there is a stale chunk)
Prune(s) ==
    LET stale == {cid \in DOMAIN s.valid : ~s.valid[cid]}
        cut == [tok \in DOMAIN s.inverted |-> Drop(s.inverted[tok], stale)]
    IN IF stale = {} THEN s
       ELSE [s EXCEPT !.man.chunks = Drop(s.man.chunks, stale),
                      !.inverted = Drop(cut, {tok \in DOMAIN cut : DOMAIN cut[tok] = {}})]

\* lines 184-281 on the loaded Manifest and Inverted Index
ScanAndPrune(man, inverted, order, dir, max_chars, overlap, now) ==
    LET s0 == [man |-> man, inverted |-> inverted,
               valid |-> [cid \in DOMAIN man.chunks |-> FALSE]]
        s1 == Prune(ScanLoop(s0, order, 1, dir, max_chars, overlap))
    IN [man |-> [s1.man EXCEPT !.updated_at = now], inverted |-> s1.inverted]

\* ------------------------------------------------------------------------
\* State
\* ------------------------------------------------------------------------
VARIABLES
    fs,         \* the directory: path -> file state
    env,        \* the env filters in force
    args,       \* <<max_chars, overlap>> the index is built with
    mandisk,    \* manifest.json: [st, man], st in absent / ok / corrupt
    idxdisk,    \* inverted_index.json: [st, inv]
    pc,         \* position of the running build_index, "idle" when none runs
    mem,        \* the Manifest and Inverted Index build_index holds in memory
    clock,      \* time.time(), advancing with every timestamp that is stored
    lastOp,     \* the last thing that happened outside a chat turn
    seen,       \* [fs, env] as the latest completed build pass found them
    before,     \* seen, as it was when the latest pass started
    pre,        \* the persisted state the latest pass started from
    result,     \* what the last retrieve returned or raised
    call,       \* the arguments of a function called on its own
    ret         \* what that call returned

vars == <<fs, env, args, mandisk, idxdisk, pc, mem, clock, lastOp, seen, before, pre, result,
          call, ret>>

NoMem == [man |-> NewManifest(0), inverted |-> EmptyFn]
NoResult == [st |-> "none", query |-> <<>>, k |-> 0, retriever |-> "", list |-> <<>>]
NoWorld == [fs |-> [p \in Paths |-> NoFile], env |-> DefaultEnv]
NoPre == [manSt |-> "none", idxSt |-> "none", man |-> NewManifest(0), inv |-> EmptyFn]

AbsentManifest == [st |-> "absent", man |-> NewManifest(0)]
AbsentIndex == [st |-> "absent", inv |-> EmptyFn]
NoCall == [op |-> "none"]
NoRet == [op |-> "none"]

\* nothing is indexed and nothing runs
NothingIndexed ==
    /\ fs = [p \in Paths |-> NoFile]
    /\ env = DefaultEnv
    /\ mandisk = AbsentManifest
    /\ idxdisk = AbsentIndex
    /\ pc = "idle"
    /\ mem = NoMem
    /\ clock = 0
    /\ lastOp = "env"
    /\ seen = NoWorld
    /\ before = NoWorld
    /\ pre = NoPre
    /\ result = NoResult

Init ==
    /\ NothingIndexed
    /\ args \in ChunkArgs
    /\ call = NoCall
    /\ ret = NoRet

\* what every step outside a build pass does to the history variables
Forget == /\ before' = NoWorld
          /\ pre' = NoPre
          /\ result' = NoResult

\* ------------------------------------------------------------------------
\* The directory changing under the index (between passes)
\* ------------------------------------------------------------------------
\* a file is created, or an existing file gets another content
WriteFile(p, c) ==
    /\ pc = "idle"
    /\ fs[p].r
    /\ fs[p].c # c
    /\ fs' = [fs EXCEPT ![p] = [c |-> c, r |-> TRUE]]
    /\ lastOp' = "env"
    /\ Forget
    /\ UNCHANGED <<env, args, call, ret, mandisk, idxdisk, pc, mem, clock, seen>>

DeleteFile(p) ==
    /\ pc = "idle"
    /\ fs[p].c # 0
    /\ fs' = [fs EXCEPT ![p] = NoFile]
    /\ lastOp' = "env"
    /\ Forget
    /\ UNCHANGED <<env, args, call, ret, mandisk, idxdisk, pc, mem, clock, seen>>

\* the file's permissions change: reads of it fail, or work again
SetReadable(p, r) ==
    /\ pc = "idle"
    /\ fs[p].c # 0
    /\ fs[p].r # r
    /\ fs' = [fs EXCEPT ![p].r = r]
    /\ lastOp' = "env"
    /\ Forget
    /\ UNCHANGED <<env, args, call, ret, mandisk, idxdisk, pc, mem, clock, seen>>

\* SEANCE_INCLUDE_EXTS / SEANCE_EXCLUDE_EXTS are set differently
SetEnv(e) ==
    /\ pc = "idle"
    /\ e # env
    /\ env' = e
    /\ lastOp' = "env"
    /\ Forget
    /\ UNCHANGED <<fs, args, call, ret, mandisk, idxdisk, pc, mem, clock, seen>>

\* ------------------------------------------------------------------------
\* seance_index.connect (lines 141-157), called on its own
\* ------------------------------------------------------------------------
\* load_manifest raises on a manifest.json that does not parse; an existing
\* Manifest is returned as it is; otherwise an empty one is saved
\* ConnectEffect stamping updated_at of a Manifest that exists
ConnectTouching ==
    /\ pc = "idle"
    /\ clock < MaxClock
    /\ clock' = clock + 1
    /\ mandisk' = IF mandisk.st = "absent"
                  THEN [st |-> "ok", man |-> NewManifest(clock + 1)]
                  ELSE [mandisk EXCEPT !.man.updated_at = clock + 1]
    /\ lastOp' = "connect"
    /\ Forget
    /\ UNCHANGED <<fs, env, args, call, idxdisk, pc, mem, seen>>

\* what connect does to the persisted state
ConnectEffect ==
    /\ pc = "idle"
    /\ IF mandisk.st = "absent"
       THEN /\ clock < MaxClock
            /\ clock' = clock + 1
            /\ mandisk' = [st |-> "ok", man |-> NewManifest(clock + 1)]
            /\ lastOp' = "connect"
            /\ Forget
       ELSE /\ lastOp' = IF mandisk.st = "corrupt" THEN "connect_raised" ELSE lastOp
            /\ UNCHANGED <<clock, mandisk, before, pre, result>>
    /\ UNCHANGED <<fs, env, args, call, idxdisk, pc, mem, seen>>

Connect ==
    /\ ConnectEffect
    /\ UNCHANGED ret

\* connect with the Manifest it returns kept: m as loaded (line 147), or
\* the Manifest just saved (lines 149-157)
CallConnect ==
    /\ ConnectEffect
    /\ ret' = IF mandisk.st = "corrupt" THEN [op |-> "connect_raised"]
              ELSE [op |-> "connect", man |-> mandisk'.man]

\* ------------------------------------------------------------------------
\* seance_index.build_index (lines 159-289), in the order of its effects
\* ------------------------------------------------------------------------
\* lines 169-184: connect (which writes an empty Manifest when there is none),
\* then the Inverted Index is loaded; an index that does not parse counts as
\* empty, a Manifest that does not parse raises out of build_index
BuildStart ==
    /\ pc = "idle"
    /\ result' = NoResult
    /\ IF mandisk.st = "corrupt"
       THEN /\ lastOp' = "build_index_raised"
            /\ before' = NoWorld
            /\ pre' = NoPre
            /\ UNCHANGED <<fs, env, args, call, ret, mandisk, idxdisk, pc, mem, clock, seen>>
       ELSE LET created == mandisk.st = "absent"
                now == IF created THEN clock + 1 ELSE clock
                man == IF created THEN NewManifest(now) ELSE mandisk.man
                inverted == IF idxdisk.st = "ok" THEN idxdisk.inv ELSE EmptyFn
            IN /\ now < MaxClock
               /\ clock' = now
               /\ mandisk' = [st |-> "ok", man |-> man]
               /\ mem' = [man |-> man, inverted |-> inverted]
               /\ pre' = [manSt |-> mandisk.st, idxSt |-> idxdisk.st,
                          man |-> man, inv |-> inverted]
               /\ before' = seen
               /\ pc' = "scan"
               /\ lastOp' = "build_index_running"
               /\ UNCHANGED <<fs, env, args, call, ret, idxdisk, seen>>

\* lines 184-281: the scan over the directory in the order rglob yields the
\* files, the prune, and the new updated_at
BuildScan ==
    /\ pc = "scan"
    /\ \E order \in Orderings(Scannable(fs, env)) :
          mem' = ScanAndPrune(mem.man, mem.inverted, order, fs, args[1], args[2], clock + 1)
    /\ clock' = clock + 1
    /\ pc' = "save_manifest"
    /\ UNCHANGED <<fs, env, args, call, ret, mandisk, idxdisk, lastOp, seen, before, pre, result>>

\* line 282: save_manifest
BuildSaveManifest ==
    /\ pc = "save_manifest"
    /\ mandisk' = [st |-> "ok", man |-> mem.man]
    /\ pc' = "save_index"
    /\ UNCHANGED <<fs, env, args, call, ret, idxdisk, mem, clock, lastOp, seen, before, pre, result>>

\* lines 283-284: the Inverted Index is written; the pass is complete
BuildSaveIndex ==
    /\ pc = "save_index"
    /\ idxdisk' = [st |-> "ok", inv |-> mem.inverted]
    /\ pc' = "idle"
    /\ mem' = NoMem
    /\ lastOp' = "build_index"
    /\ seen' = [fs |-> fs, env |-> env]
    /\ UNCHANGED <<fs, env, args, call, ret, mandisk, clock, before, pre, result>>

\* ------------------------------------------------------------------------
\* seance_query.retrieve (lines 24-276)
\* Scores are fixed-point numbers in thousandths (Milli).
\* ------------------------------------------------------------------------
Milli == 1000

\* SEANCE_BM25_K1 default 1.2 (in tenths), SEANCE_BM25_B default 0.75 (in
\* hundredths), SEANCE_SYMBOL_IDF_BOOST, SEANCE_KEYWORD_BOOST, SEANCE_PATTERN_BOOST
K1Tenths == 12
BHundredths == 75
SymbolIdfBoost == 100
KeywordBoost == 6
PatternBoost == 8

\* math.log of a small positive integer, in thousandths
LnMilli(n) ==
    CASE n = 1 -> 0
      [] n = 2 -> 693
      [] n = 3 -> 1099
      [] n = 4 -> 1386
      [] n = 5 -> 1609
      [] n = 6 -> 1792
      [] n = 7 -> 1946
      [] n = 8 -> 2079
      [] n = 9 -> 2197
      [] n = 10 -> 2303
      [] n = 11 -> 2398
      [] n = 12 -> 2485
      [] n = 13 -> 2565
      [] n = 14 -> 2639
      [] n = 15 -> 2708
      [] n = 16 -> 2773
      [] n = 17 -> 2833
      [] n = 18 -> 2890
      [] n = 19 -> 2944
      [] n = 20 -> 2996
      [] n = 21 -> 3045
      [] n = 22 -> 3091
      [] n = 23 -> 3135
      [] n = 24 -> 3178
      [] OTHER -> 3219

\* the postings of a token, inverted.get(qt) or {}
Postings(inverted, qt) == IF qt \in DOMAIN inverted THEN inverted[qt] ELSE EmptyFn

\* lines 65-68: doc_len[cid] = sum of the term frequencies recorded for cid
DocLen(inverted, cid) ==
    SumOver([tok \in DOMAIN inverted |->
                IF cid \in DOMAIN inverted[tok] THEN inverted[tok][cid] ELSE 0],
            DOMAIN inverted)

\* line 94: idf = ln(1 + (N - n_t + 0.5) / (n_t + 0.5)) = ln((2N + 2) / (2 n_t + 1))
Idf(N, n_t) == LnMilli(2 * N + 2) - LnMilli(2 * n_t + 1)

Contains(s, sub) == \E i \in 1..(Len(s) - Len(sub) + 1) : SubSeq(s, i, i + Len(sub) - 1) = sub

\* lines 98-101 and 126-129: tokens are lower case, so both tests come to
\* "has an underscore or is at least 12 characters long"
Symbolish(qt) == Contains(qt, "_") \/ Len(qt) >= 12

\* lines 111-122: the BM25 part of one posting
\*   idf * tf * (k1 + 1) / (tf + k1 * (1 - b + b * dl / avgdl)),  avgdl = total / N
\* with k1 in tenths and b in hundredths (lines 77-84: SEANCE_BM25_K1,
\* SEANCE_BM25_B)
Bm25PartInverse(qt_idf, tf, dl, N, total, k1, b) ==
    LET ratio == ((k1 + 10) * 100 * total * Milli)
                    \div (1000 * tf * total + k1 * (100 - b) * total + k1 * b * dl * N)
    IN (qt_idf * ratio) \div Milli

Bm25PartWith(qt_idf, tf, dl, N, total, k1, b) ==
    LET ratio == (tf * (k1 + 10) * 100 * total * Milli)
                    \div (1000 * tf * total + k1 * (100 - b) * total + k1 * b * dl * N)
    IN (qt_idf * ratio) \div Milli

Bm25Part(qt_idf, tf, dl, N, total) ==
    Bm25PartWith(qt_idf, tf, dl, N, total, K1Tenths, BHundredths)

\* index just past the run of whitespace starting at i
RECURSIVE SkipSpace(_, _)
SkipSpace(text, i) ==
    IF i <= Len(text) /\ IsSpace(CharAt(text, i)) THEN SkipSpace(text, i + 1) ELSE i

\* \b in front of a word character at i
WordStartAt(text, i) == i = 1 \/ ~IsWordChar(CharAt(text, i - 1))

\* lit (lower case) at i, ignoring case
LitAt(text, i, lit) == Lower(Slice(text, i, i + Len(lit) - 1)) = lit

\* sym \s* \(  at i
CallAt(text, i, sym) ==
    /\ LitAt(text, i, sym)
    /\ CharAt(text, SkipSpace(text, i + Len(sym))) = "("

\* re_def.search: \bdef\s+sym\s*\(
ReDef(text, sym) ==
    \E i \in 1..Len(text) :
        /\ WordStartAt(text, i)
        /\ LitAt(text, i, "def")
        /\ SkipSpace(text, i + 3) > i + 3
        /\ CallAt(text, SkipSpace(text, i + 3), sym)

\* re_call.search: \bsym\s*\(  or  \bident\s*\.\s*sym\s*\(  (the second
\* alternative has sym after "." or whitespace, where the first matches too)
ReCall(text, sym) ==
    \E i \in 1..Len(text) : WordStartAt(text, i) /\ CallAt(text, i, sym)

\* ln.lstrip().startswith("#")
IsComment(ln) == CharAt(ln, SkipSpace(ln, 1)) = "#"

\* the user's questions, and their tokens (line 40), computed once
Queries == {"", "Foo", "foo BAR", "x_y baz", "where is qux?"}
QueryTokens == [q \in Queries |-> tokenize(q)]

\* lines 187-213: the pattern bonus of lines lo..hi of a file read now with
\* content c, in thousandths
PatternBonusOf(c, lo, end_line, sym) ==
    LET all == Text(c)
        hi == Min(end_line, Len(all))
        text == JoinLines(all, lo, hi)
        hits == {n \in lo..hi : Contains(Lower(all[n]), sym)}
        code_hits == {n \in hits : ~IsComment(all[n])}
        raw == (IF ReDef(text, sym) THEN (PatternBoost * 3 * Milli) \div 2 ELSE 0)
               + (IF ReCall(text, sym) THEN PatternBoost * Milli ELSE 0)
    IN IF hits # {} /\ code_hits = {} THEN raw \div 2 ELSE raw

\* PatternBonusOf for every content, line range of a chunk and query token,
\* computed once
MaxLines == Len(Text(CHOOSE c \in Contents : \A d \in Contents : Len(Text(c)) >= Len(Text(d))))
PatternTable ==
    [c \in Contents |->
        [lo \in 1..MaxLines |->
            [hi \in 1..MaxLines |->
                [sym \in UNION {Range(QueryTokens[q]) : q \in Queries} |->
                    PatternBonusOf(c, lo, hi, sym)]]]]

\* lines 181-216: the pattern bonus of one candidate chunk; none when the
\* file cannot be read now (line 189)
PatternBonus(meta, dir, sym) ==
    IF dir[meta.file].c = 0 \/ ~dir[meta.file].r THEN 0
    ELSE PatternTable[dir[meta.file].c][meta.start_line][meta.end_line][sym]

\* Bm25Scores with a score for every chunk of the corpus (a dense scan)
Bm25ScoresDense(man, inverted, qtokens, dir, sym) ==
    LET docs == PostedCids(inverted)
        qset == {qt \in Range(qtokens) : DOMAIN Postings(inverted, qt) # {}}
    IN [cid \in docs |->
          SumOver([qt \in qset |->
                      IF cid \in DOMAIN inverted[qt] THEN inverted[qt][cid] * Milli ELSE 0],
                  qset)]

\* lines 65-216: the score of every chunk that gets one, with sym the symbol
\* the pattern boost is compiled for (None when the query has no token)
Bm25Scores(man, inverted, qtokens, dir, sym) ==
    LET docs == PostedCids(inverted)
        N == Cardinality(docs)
        doc_len == [cid \in docs |-> DocLen(inverted, cid)]
        total == SumOver(doc_len, docs)
        qset == {qt \in Range(qtokens) : DOMAIN Postings(inverted, qt) # {}}
        idf == [qt \in qset |->
                  LET base == Idf(N, Cardinality(DOMAIN inverted[qt]))
                  IN IF Symbolish(qt) THEN base * SymbolIdfBoost ELSE base]
        scored == UNION {DOMAIN inverted[qt] : qt \in qset}
        base(cid) ==
            SumOver([qt \in qset |->
                        IF cid \in DOMAIN inverted[qt]
                        THEN Bm25Part(idf[qt], inverted[qt][cid], doc_len[cid], N, total)
                        ELSE 0], qset)
        presence(cid) ==
            SumOver([qt \in qset |->
                        IF cid \in DOMAIN inverted[qt]
                        THEN (IF Symbolish(qt) THEN 2 ELSE 1) ELSE 0], qset)
        symbolish == {qt \in Range(qtokens) : Symbolish(qt)}
        basis == IF symbolish # {} THEN symbolish ELSE Range(qtokens)
        candidate_cids == UNION {DOMAIN Postings(inverted, qt) : qt \in basis}
        bonus(cid) ==
            IF sym # None /\ cid \in candidate_cids /\ cid \in DOMAIN man.chunks
            THEN PatternBonus(man.chunks[cid], dir, sym) ELSE 0
    IN [cid \in scored \cup {c \in candidate_cids : bonus(c) > 0} |->
          (IF cid \in scored THEN base(cid) + presence(cid) * KeywordBoost * Milli ELSE 0)
            + bonus(cid)]

\* line 172-173: next(iter(symbolish), None) or qtokens[0]; the list symbolish
\* is filled in the iteration order of set(qtokens), which is any order
PatternSyms(qtokens) ==
    IF qtokens = <<>> THEN {None}
    ELSE IF \E qt \in Range(qtokens) : Symbolish(qt)
         THEN {qt \in Range(qtokens) : Symbolish(qt)}
         ELSE {qtokens[1]}

\* TopLists sorting in ascending order
RECURSIVE TopListsAscending(_, _, _)
TopListsAscending(S, sc, k) ==
    IF k <= 0 \/ S = {} THEN {<<>>}
    ELSE UNION {{<<(<<x, sc[x]>>)>> \o t : t \in TopListsAscending(S \ {x}, sc, k - 1)} :
                    x \in {y \in S : \A z \in S : sc[y] <= sc[z]}}

\* sorted(scores.items(), key=score, reverse=True)[:k]: the sort keeps equal
\* scores in dict insertion order, which depends on the order of set(qtokens)
\* and of the postings; every order of equal scores is allowed here
RECURSIVE TopLists(_, _, _)
TopLists(S, sc, k) ==
    IF k <= 0 \/ S = {} THEN {<<>>}
    ELSE UNION {{<<(<<x, sc[x]>>)>> \o t : t \in TopLists(S \ {x}, sc, k - 1)} :
                    x \in {y \in S : \A z \in S : sc[y] >= sc[z]}}

\* lines 225-229
ChunkHasAnyQueryToken(inverted, qtokens, cid) ==
    \E qt \in Range(qtokens) : cid \in DOMAIN Postings(inverted, qt)

\* lines 62-258: the lists BM25 may return
RetrieveBm25(man, inverted, qtokens, k, dir) ==
    IF PostedCids(inverted) = {} THEN {<<>>}
    ELSE UNION {
        LET scores == Bm25Scores(man, inverted, qtokens, dir, sym)
            symbolish == {qt \in Range(qtokens) : Symbolish(qt)}
            basis == IF symbolish # {} THEN symbolish ELSE Range(qtokens)
            pool == [cid \in UNION {DOMAIN Postings(inverted, qt) : qt \in basis} |->
                        SumOver([qt \in basis |->
                                    IF cid \in DOMAIN Postings(inverted, qt)
                                    THEN inverted[qt][cid] * Milli ELSE 0], basis)]
        IN UNION {IF top # <<>>
                    /\ ~\E n \in 1..Len(top) :
                            ChunkHasAnyQueryToken(inverted, qtokens, top[n][1])
                    /\ DOMAIN pool # {}
                 THEN TopLists(DOMAIN pool, pool, k)
                 ELSE {top} : top \in TopLists(DOMAIN scores, scores, k)}
        : sym \in PatternSyms(qtokens)}

\* lines 16-21
_score_jaccard(query_tokens, chunk_tokens) ==
    LET a == Range(query_tokens)
        b == chunk_tokens
    IN IF a = {} \/ b = {} THEN 0
       ELSE (Cardinality(a \cap b) * Milli) \div Cardinality(a \cup b)

\* lines 260-276: the lists Jaccard may return
RetrieveJaccard(inverted, qtokens, k) ==
    LET candidates == UNION {DOMAIN Postings(inverted, qt) : qt \in Range(qtokens)}
        ranked == [cid \in candidates |->
                      _score_jaccard(qtokens, {t \in DOMAIN inverted : cid \in DOMAIN inverted[t]})]
    IN TopLists(candidates, ranked, k)

Retrievers == {"bm25", "jaccard"}

\* lines 29-37: how retrieve ends, by the state of the two files
RetrieveOutcome(manSt, idxSt) ==
    IF manSt = "absent" \/ (manSt = "ok" /\ idxSt = "absent") THEN "not_indexed"
    ELSE IF manSt = "corrupt" \/ idxSt = "corrupt" THEN "json_error"
    ELSE "ok"

\* retrieve(root, name, query, k) under SEANCE_RETRIEVER = retriever: lines
\* 29-35 raise the not-indexed RuntimeError when manifest.json or
\* inverted_index.json is missing, json.loads raises on a file that does not
\* parse (lines 29 and 37), otherwise a list is returned
Retrieve(query, k, retriever) ==
    /\ pc = "idle"
    /\ \E list \in (IF mandisk.st # "ok" \/ idxdisk.st # "ok" THEN {<<>>}
                    ELSE IF retriever = "bm25"
                    THEN RetrieveBm25(mandisk.man, idxdisk.inv, QueryTokens[query], k, fs)
                    ELSE RetrieveJaccard(idxdisk.inv, QueryTokens[query], k)) :
          result' = [st |-> RetrieveOutcome(mandisk.st, idxdisk.st),
                     query |-> query, k |-> k, retriever |-> retriever, list |-> list]
    /\ pc' = "retrieved"
    /\ UNCHANGED <<fs, env, args, call, ret, mandisk, idxdisk, mem, clock, lastOp, seen, before, pre>>

\* seance_runner.chat after line 516: the turn goes on with the list retrieve
\* returned (or ends with the error it raised) and comes to its end
ChatTurnEnd ==
    /\ pc = "retrieved"
    /\ pc' = "idle"
    /\ result' = NoResult
    /\ UNCHANGED <<fs, env, args, call, ret, mandisk, idxdisk, mem, clock, lastOp, seen, before, pre>>

\* ------------------------------------------------------------------------
\* The process running build_index is killed
\* ------------------------------------------------------------------------
\* between two of its effects: what is in memory is lost, the files stay
Crash ==
    /\ pc \in {"scan", "save_manifest", "save_index"}
    /\ pc' = "idle"
    /\ mem' = NoMem
    /\ lastOp' = "build_index_crashed"
    /\ Forget
    /\ UNCHANGED <<fs, env, args, call, ret, mandisk, idxdisk, clock, seen>>

\* inside mp.write_text (line 137): the file is truncated and partly written
CrashInSaveManifest ==
    /\ pc = "save_manifest"
    /\ mandisk' = [st |-> "corrupt", man |-> NewManifest(0)]
    /\ pc' = "idle"
    /\ mem' = NoMem
    /\ lastOp' = "build_index_crashed"
    /\ Forget
    /\ UNCHANGED <<fs, env, args, call, ret, idxdisk, clock, seen>>

\* inside ip.write_text (line 284)
CrashInSaveIndex ==
    /\ pc = "save_index"
    /\ idxdisk' = [st |-> "corrupt", inv |-> EmptyFn]
    /\ pc' = "idle"
    /\ mem' = NoMem
    /\ lastOp' = "build_index_crashed"
    /\ Forget
    /\ UNCHANGED <<fs, env, args, call, ret, mandisk, clock, seen>>

\* ------------------------------------------------------------------------
\* Specifications
\* ------------------------------------------------------------------------
\* Spec: files come, change and go, the env filters change, and the index is
\* connected and rebuilt
Next ==
    \/ \E p \in Paths, c \in Contents : WriteFile(p, c)
    \/ \E p \in Paths : DeleteFile(p)
    \/ \E e \in EnvConfigs : SetEnv(e)
    \/ Connect
    \/ BuildStart
    \/ BuildScan
    \/ BuildSaveManifest
    \/ BuildSaveIndex

Spec == Init /\ [][Next]_vars

\* SpecRead: files come, change, become unreadable and go, and the index is
\* rebuilt
NextRead ==
    \/ \E p \in Paths, c \in Contents : WriteFile(p, c)
    \/ \E p \in Paths : DeleteFile(p)
    \/ \E p \in Paths, r \in BOOLEAN : SetReadable(p, r)
    \/ BuildStart
    \/ BuildScan
    \/ BuildSaveManifest
    \/ BuildSaveIndex

SpecRead == Init /\ [][NextRead]_vars

\* SpecQuery: files come, change and go, the index is rebuilt, and chat turns
\* query it
NextQuery ==
    \/ \E p \in Paths, c \in Contents : WriteFile(p, c)
    \/ \E p \in Paths : DeleteFile(p)
    \/ Connect
    \/ BuildStart
    \/ BuildScan
    \/ BuildSaveManifest
    \/ BuildSaveIndex
    \/ \E query \in Queries, k \in 0..MaxK, retriever \in Retrievers : Retrieve(query, k, retriever)
    \/ ChatTurnEnd

SpecQuery == Init /\ [][NextQuery]_vars

\* SpecCrash: files come, change and go, the index is rebuilt, and the process
\* running build_index may be killed at any point
NextCrash ==
    \/ \E p \in Paths, c \in Contents : WriteFile(p, c)
    \/ \E p \in Paths : DeleteFile(p)
    \/ Connect
    \/ BuildStart
    \/ BuildScan
    \/ BuildSaveManifest
    \/ BuildSaveIndex
    \/ Crash
    \/ CrashInSaveManifest
    \/ CrashInSaveIndex

SpecCrash == Init /\ [][NextCrash]_vars

\* SpecCrashQuery: files come and change, the index is rebuilt, the process
\* running build_index may be killed while it writes one of the two files,
\* and chat turns query what is on disk
NextCrashQuery ==
    \/ \E p \in Paths, c \in Contents : WriteFile(p, c)
    \/ BuildStart
    \/ BuildScan
    \/ BuildSaveManifest
    \/ BuildSaveIndex
    \/ CrashInSaveManifest
    \/ CrashInSaveIndex
    \/ \E query \in Queries, k \in 0..MaxK, retriever \in Retrievers : Retrieve(query, k, retriever)
    \/ ChatTurnEnd

SpecCrashQuery == Init /\ [][NextCrashQuery]_vars

\* ------------------------------------------------------------------------
\* Properties
\* ------------------------------------------------------------------------
\* a build pass has just completed: fs and env are what it scanned, pre is
\* the persisted state it started from, before is what the completed pass
\* before it scanned
Completed == pc = "idle" /\ lastOp = "build_index"

\* the pass started from the state a completed pass had left
AfterEarlierPass == pre.manSt = "ok" /\ pre.idxSt = "ok"

\* the frequency recorded for tok in chunk cid, 0 when there is no posting
Tf(inverted, tok, cid) ==
    IF tok \in DOMAIN inverted /\ cid \in DOMAIN inverted[tok] THEN inverted[tok][cid] ELSE 0

\* the chunks a file owns, with their line ranges
OwnedChunks(man, rel) == [cid \in OwnedBy(man, rel) |-> man.chunks[cid]]

\* the frequencies recorded for the chunk ids in K agree in both indexes
SamePostings(inv1, inv2, K) ==
    \A cid \in K, tok \in DOMAIN inv1 \cup DOMAIN inv2 : Tf(inv1, tok, cid) = Tf(inv2, tok, cid)

\* C1: after every completed build_index pass, every chunk id that occurs in
\* a posting of the persisted Inverted Index is a key of Manifest.chunks
C1_PostingsInManifest ==
    (pc = "idle" /\ idxdisk.st = "ok")
        => PostedCids(idxdisk.inv) \subseteq DOMAIN mandisk.man.chunks

\* a completed pass that pruned the postings of a chunk and kept others
C1_Witness ==
    /\ Completed
    /\ PostedCids(pre.inv) \ PostedCids(idxdisk.inv) # {}
    /\ PostedCids(idxdisk.inv) # {}
    /\ clock >= 3

\* between the completed pass before and this pass, the content of file p
\* changed and nothing else did
OnlyChanged(p) ==
    /\ before.fs[p].c # 0
    /\ fs[p].c # 0
    /\ before.fs[p].c # fs[p].c
    /\ \A q \in Paths \ {p} : before.fs[q] = fs[q]
    /\ before.env = env

\* C2: if exactly one indexed file changed content before a pass, then for
\* every other file the chunks it owns (ids, line ranges) and the postings
\* that reference them are the same before and after the pass
C2_OtherFilesUntouched ==
    (Completed /\ AfterEarlierPass)
        => \A p \in Paths : OnlyChanged(p) =>
              \A q \in Paths \ {p} :
                  /\ OwnedChunks(mandisk.man, q) = OwnedChunks(pre.man, q)
                  /\ SamePostings(idxdisk.inv, pre.inv, OwnedBy(pre.man, q))

\* C3: if an indexed file was removed from the directory before a pass, then
\* after the pass no chunk has that file as its owner and no posting
\* references a chunk id the file owned before the pass
C3_DeletedFileGone ==
    Completed
        => \A p \in Paths : (before.fs[p].c # 0 /\ fs[p].c = 0) =>
              /\ OwnedBy(mandisk.man, p) = {}
              /\ PostedCids(idxdisk.inv) \cap OwnedBy(pre.man, p) = {}

\* C4: a pass that starts from the state a completed pass left, with no file
\* and no filter changed since, leaves files, chunks and every posting as
\* they were (updated_at aside)
C4_Idempotent ==
    (Completed /\ AfterEarlierPass /\ before = [fs |-> fs, env |-> env])
        => /\ mandisk.man.files = pre.man.files
           /\ mandisk.man.chunks = pre.man.chunks
           /\ mandisk.man.created_at = pre.man.created_at
           /\ idxdisk.inv = pre.inv

\* a pass re-run over two unchanged files that own chunks
C4_Witness ==
    /\ Completed
    /\ AfterEarlierPass
    /\ before = [fs |-> fs, env |-> env]
    /\ \A p \in Paths : OwnedBy(mandisk.man, p) # {}
    /\ mandisk.man.updated_at # pre.man.updated_at

\* the two files as the running pass found them (after connect), and as the
\* pass leaves them when it completes
PreSnapshot ==
    <<[st |-> "ok", man |-> pre.man], [st |-> pre.idxSt, inv |-> pre.inv]>>
PostSnapshot ==
    <<[st |-> "ok", man |-> mem.man], [st |-> "ok", inv |-> mem.inverted]>>

\* C5: when build_index is killed at any point, the persisted Manifest and
\* Inverted Index are both the pre-build snapshot or both the post-build
\* snapshot, and neither file is partially written
C5_CrashAtomic ==
    [][(pc # "idle" /\ lastOp' = "build_index_crashed")
          => \/ <<mandisk', idxdisk'>> = PreSnapshot
             \/ (pc \in {"save_manifest", "save_index"}
                    /\ <<mandisk', idxdisk'>> = PostSnapshot)]_vars

\* C6: a pass that meets an unreadable file completes; the hash recorded for
\* every readable scanned file is the hash of its content, the entry of an
\* unreadable file is what it was before the pass, and an entry changes only
\* in a pass that reads the file
C6_UnreadableFileSkipped ==
    Completed
        => /\ \A p \in Scannable(fs, env) :
                 IF fs[p].r
                 THEN Get(mandisk.man.files, p) = file_hash(fs[p])
                 ELSE Get(mandisk.man.files, p) = Get(pre.man.files, p)
           /\ \A p \in Paths :
                 Get(mandisk.man.files, p) # Get(pre.man.files, p)
                    => p \in Scannable(fs, env) /\ fs[p].r

\* a completed pass over an indexed file that had become unreadable and
\* another file whose entry the pass replaced
C6_Witness ==
    /\ Completed
    /\ \E p \in Scannable(fs, env), q \in Scannable(fs, env) :
          /\ ~fs[p].r
          /\ p \in DOMAIN pre.man.files
          /\ mandisk.man.files[p] = pre.man.files[p]
          /\ fs[q].r
          /\ q \in DOMAIN pre.man.files
          /\ mandisk.man.files[q] # pre.man.files[q]

\* what build_index persists when it starts from no persisted state, for
\* every order of the scan
FreshBuilds ==
    {ScanAndPrune(NewManifest(0), EmptyFn, order, fs, args[1], args[2], 0) :
        order \in Orderings(Scannable(fs, env))}

\* C7: build_index does not fail on a Manifest or an Inverted Index that does
\* not parse, and what it persists then equals what a build from empty state
\* over the same files persists
C7_CorruptStateRecovered ==
    /\ lastOp # "build_index_raised"
    /\ (Completed /\ pre.idxSt = "corrupt")
          => \E b \in FreshBuilds :
                /\ mandisk.man.files = b.man.files
                /\ mandisk.man.chunks = b.man.chunks
                /\ idxdisk.inv = b.inverted

\* C8: retrieve raises the not-indexed error exactly when manifest.json or
\* inverted_index.json is absent; with both present it returns a list, which
\* is empty when the index holds no posting at all or none for a query token
C8_NotIndexedIffAbsent ==
    pc = "retrieved"
        => /\ (result.st = "not_indexed")
                 <=> (mandisk.st = "absent" \/ idxdisk.st = "absent")
           /\ (mandisk.st # "absent" /\ idxdisk.st # "absent") => result.st = "ok"
           /\ (/\ result.st = "ok"
               /\ \/ PostedCids(idxdisk.inv) = {}
                  \/ \A qt \in Range(QueryTokens[result.query]) :
                        DOMAIN Postings(idxdisk.inv, qt) = {})
                 => result.list = <<>>

\* C9: the list retrieve returns has at most k elements and its scores never
\* increase from one element to the next, under BM25 and under Jaccard
C9_TopKDescending ==
    (pc = "retrieved" /\ result.st = "ok")
        => /\ Len(result.list) <= result.k
           /\ \A n \in 1..(Len(result.list) - 1) :
                 result.list[n][2] >= result.list[n + 1][2]

\* a list cut at k = 2 out of more candidates, with two different scores
C9_Witness ==
    /\ pc = "retrieved"
    /\ result.st = "ok"
    /\ result.k = 2
    /\ Len(result.list) = 2
    /\ result.list[1][2] > result.list[2][2]
    /\ Cardinality({cid \in PostedCids(idxdisk.inv) :
            ChunkHasAnyQueryToken(idxdisk.inv, QueryTokens[result.query], cid)}) > 2

\* C10: every chunk id retrieve returns has a posting for at least one token
\* of the query, under BM25 and under Jaccard
C10_OnlyChunksWithQueryToken ==
    (pc = "retrieved" /\ result.st = "ok")
        => \A n \in 1..Len(result.list) :
              ChunkHasAnyQueryToken(idxdisk.inv, QueryTokens[result.query], result.list[n][1])

\* a list shorter than k, while the index holds a chunk without any token of
\* the query
C10_Witness ==
    /\ pc = "retrieved"
    /\ result.st = "ok"
    /\ result.list # <<>>
    /\ Len(result.list) < result.k
    /\ \E cid \in PostedCids(idxdisk.inv) :
          ~ChunkHasAnyQueryToken(idxdisk.inv, QueryTokens[result.query], cid)

\* the sum of the BM25 contributions of the distinct query tokens that have a
\* posting for cid, and nothing else
PlainBm25(inverted, qtokens, cid) ==
    LET docs == PostedCids(inverted)
        N == Cardinality(docs)
        total == SumOver([c \in docs |-> DocLen(inverted, c)], docs)
        qset == {qt \in Range(qtokens) : cid \in DOMAIN Postings(inverted, qt)}
    IN SumOver([qt \in qset |->
                   Bm25Part(Idf(N, Cardinality(DOMAIN inverted[qt])),
                            inverted[qt][cid], DocLen(inverted, cid), N, total)],
               qset)

\* C11: in BM25 mode the score returned for a chunk is exactly the sum of the
\* BM25 contributions idf(t) * tf*(k1+1) / (tf + k1*(1 - b + b*dl/avgdl)) of
\* the query tokens that have a posting for the chunk
C11_ScoreIsPlainBm25 ==
    (pc = "retrieved" /\ result.st = "ok" /\ result.retriever = "bm25")
        => \A n \in 1..Len(result.list) :
              result.list[n][2] =
                  PlainBm25(idxdisk.inv, QueryTokens[result.query], result.list[n][1])

\* ------------------------------------------------------------------------
\* greedy_line_chunk called on its own
\* ------------------------------------------------------------------------
\* largest number of lines of a text handed to the chunker
MaxTextLines == 4

LineChoices == {"", "ab", "abcdefgh"}
TextChoices == {<<>>} \cup UNION {[1..m -> LineChoices] : m \in 1..MaxTextLines}
MaxCharsChoices == {-1, 0, 2, 3, 9, 12, 40}
OverlapChoices == {-80, 0, 79, 80, 170, 400}

ChunkInputs ==
    [op : {"greedy_line_chunk"}, lines : TextChoices,
     max_chars : MaxCharsChoices, overlap : OverlapChoices]

InitChunk ==
    /\ NothingIndexed
    /\ call \in ChunkInputs
    /\ args = <<call.max_chars, call.overlap>>
    /\ ret = NoRet

CallGreedyLineChunk ==
    /\ call.op = "greedy_line_chunk"
    /\ ret = NoRet
    /\ ret' = [op |-> "greedy_line_chunk",
               chunks |-> greedy_line_chunk(call.lines, call.max_chars, call.overlap)]
    /\ UNCHANGED <<fs, env, args, mandisk, idxdisk, pc, mem, clock, lastOp, seen, before,
                   pre, result, call>>

\* SpecChunk: greedy_line_chunk applied to a text of up to MaxTextLines lines
NextChunk == CallGreedyLineChunk

SpecChunk == InitChunk /\ [][NextChunk]_vars

Returned(op) == ret.op = op

\* C12: the spans of greedy_line_chunk are 1-based inclusive, start at line 1,
\* end at the last line, have non-decreasing starts, each starts no later
\* than the line after the end of the span before it, and every line lies in
\* a span; a text without lines gives no span
C12_ChunkCoverage ==
    Returned("greedy_line_chunk")
        => LET spans == ret.chunks
               L == Len(call.lines)
           IN /\ (L = 0) => (spans = <<>>)
              /\ (L > 0) =>
                    /\ spans # <<>>
                    /\ spans[1][1] = 1
                    /\ spans[Len(spans)][2] = L
              /\ \A n \in 1..Len(spans) :
                    1 <= spans[n][1] /\ spans[n][1] <= spans[n][2] /\ spans[n][2] <= L
              /\ \A n \in 1..(Len(spans) - 1) :
                    /\ spans[n][1] <= spans[n + 1][1]
                    /\ spans[n + 1][1] <= spans[n][2] + 1
              /\ \A ln \in 1..L :
                    \E n \in 1..Len(spans) : spans[n][1] <= ln /\ ln <= spans[n][2]

\* a text chunked into several spans, one of them a line cut at max_chars
C12_Witness ==
    /\ Returned("greedy_line_chunk")
    /\ Len(call.lines) = MaxTextLines
    /\ Len(ret.chunks) >= 3
    /\ \E n \in 1..Len(ret.chunks) : ret.chunks[n][2] > ret.chunks[n][1]
    /\ \E n \in 1..Len(ret.chunks) :
          Len(ret.chunks[n][3]) < Len(call.lines[ret.chunks[n][1]])

\* C13: when overlap // 80 >= 1, the chunk after a closed chunk starts
\* overlap // 80 lines before the line that follows the closed chunk's end,
\* provided that start is after the closed chunk's start
C13_ChunksOverlap ==
    Returned("greedy_line_chunk")
        => LET spans == ret.chunks
               overlap_lines == call.overlap \div 80
           IN \A n \in 1..(Len(spans) - 1) :
                 (overlap_lines >= 1 /\ spans[n][2] + 1 - overlap_lines > spans[n][1])
                    => spans[n + 1][1] = spans[n][2] + 1 - overlap_lines

\* ------------------------------------------------------------------------
\* Context assembly: seance_runner._expand_to_deep_contexts (lines 59-148),
\* _expand_to_wide_contexts (151-207) and the default strategy of chat
\* (541-590). matches is the list retrieve returned, chunks is man.chunks,
\* dir the directory as it is now. A context is <<cid, file, start, end, text>>.
\* ------------------------------------------------------------------------
\* fp.read_text(...).splitlines(): raises when the file is gone or unreadable
ReadLines(dir, file) ==
    IF file \in DOMAIN dir /\ dir[file].c # 0 /\ dir[file].r
    THEN [none |-> FALSE, lines |-> Text(dir[file].c)]
    ELSE [none |-> TRUE, lines |-> <<>>]

\* seq[:n] of Python for a list
PySeqPrefix(seq, n) ==
    IF n >= 0 THEN SubSeq(seq, 1, Min(n, Len(seq)))
    ELSE SubSeq(seq, 1, Max(0, Len(seq) + n))

\* text[:n] when the text is longer than n characters (lines 124-125, 200-201)
Capped(text, n) == IF Len(text) > n THEN PyPrefix(text, n) ELSE text

\* f"{file}:{s}-{e}"
Citation(file, s, e) == file \o ":" \o ToString(s) \o "-" \o ToString(e)

\* CitationsOf listing the citations last window first
CitationsReversed(contexts) ==
    [n \in 1..Len(contexts) |->
        Citation(contexts[Len(contexts) + 1 - n][2], contexts[Len(contexts) + 1 - n][3],
                 contexts[Len(contexts) + 1 - n][4])]

\* lines 533 and 539: the citations of the contexts an expander returned
CitationsOf(contexts) ==
    [n \in 1..Len(contexts) |-> Citation(contexts[n][2], contexts[n][3], contexts[n][4])]

\* lines 74-83 and 168-177: per file, in the order the files first occur in
\* matches, the sum of the scores and the first chunk with the highest score
RECURSIVE FileStats(_, _, _, _)
FileStats(matches, chunks, n, st) ==
    IF n > Len(matches) THEN st
    ELSE LET cid == matches[n][1]
             score == matches[n][2]
         IN IF cid \notin DOMAIN chunks THEN FileStats(matches, chunks, n + 1, st)
            ELSE LET meta == chunks[cid]
                     known == meta.file \in DOMAIN st.tot
                     better == ~known \/ score > st.best[meta.file][4]
                     files == DOMAIN st.tot \cup {meta.file}
                 IN FileStats(matches, chunks, n + 1,
                      [order |-> IF known THEN st.order ELSE Append(st.order, meta.file),
                       tot |-> [f \in files |->
                                  IF f = meta.file
                                  THEN (IF known THEN st.tot[f] ELSE 0) + score
                                  ELSE st.tot[f]],
                       best |-> [f \in files |->
                                  IF f = meta.file /\ better
                                  THEN <<cid, meta.start_line, meta.end_line, score>>
                                  ELSE st.best[f]]])

\* sorted(..., reverse=True) is stable: equal keys keep their order
RECURSIVE InsertDesc(_, _, _)
InsertDesc(sorted, x, key) ==
    IF sorted = <<>> THEN <<x>>
    ELSE IF key[Head(sorted)] >= key[x]
         THEN <<Head(sorted)>> \o InsertDesc(Tail(sorted), x, key)
         ELSE <<x>> \o sorted

RECURSIVE SortedDesc(_, _, _)
SortedDesc(seq, n, key) ==
    IF n = 0 THEN <<>> ELSE InsertDesc(SortedDesc(seq, n - 1, key), seq[n], key)

\* RankedFiles taking the files in the order they first occur in matches
RankedFilesUnsorted(matches, chunks, top_n_files) ==
    LET st == FileStats(matches, chunks, 1, [order |-> <<>>, tot |-> EmptyFn, best |-> EmptyFn])
    IN [files |-> PySeqPrefix(st.order, top_n_files), best |-> st.best, tot |-> st.tot]

\* lines 86 and 180: the top_n_files files by total score
RankedFiles(matches, chunks, top_n_files) ==
    LET st == FileStats(matches, chunks, 1, [order |-> <<>>, tot |-> EmptyFn, best |-> EmptyFn])
    IN [files |-> PySeqPrefix(SortedDesc(st.order, Len(st.order), st.tot), top_n_files),
        best |-> st.best, tot |-> st.tot]

\* lines 185-204: the snippet of one ranked file
WideWindow(best, file, dir, window_lines, max_chars) ==
    LET rd == ReadLines(dir, file)
        total == Len(rd.lines)
        start == Max(1, Min(best[2], best[3]) - window_lines)
        end == Min(total, Max(best[2], best[3]) + window_lines)
    IN IF rd.none THEN <<best[1], file, 1, 1, "(unreadable file)">>
       ELSE <<best[1], file, start, end, Capped(JoinLines(rd.lines, start, end), max_chars)>>

_expand_to_wide_contexts(matches, chunks, dir, top_n_files, window_lines, max_chars) ==
    LET ranked == RankedFiles(matches, chunks, top_n_files)
    IN [n \in 1..Len(ranked.files) |->
          WideWindow(ranked.best[ranked.files[n]], ranked.files[n], dir, window_lines, max_chars)]

\* seance_runner._tokenize
_tokenize(text) == Range(tokenize(text))

\* max_file_chars values (SEANCE_DEEP_MAX_FILE_CHARS) the deep strategy is run with
DeepCaps == {4, 4000}

\* _tokenize of lines lo..hi of every content, and of that text cut to a
\* cap, computed once
SpanTokens ==
    [c \in Contents |->
        [lo \in 1..MaxLines |->
            [hi \in 0..MaxLines |-> _tokenize(JoinLines(Text(c), lo, hi))]]]

WindowTokens ==
    [c \in Contents |->
        [lo \in 1..MaxLines |->
            [hi \in 0..MaxLines |->
                [cap \in DeepCaps |-> _tokenize(Capped(JoinLines(Text(c), lo, hi), cap))]]]]

\* lines 106-145: the windows (none or one) of one ranked file
DeepWindow(best, file, dir, window_lines, max_file_chars, min_overlap) ==
    LET rd == ReadLines(dir, file)
        lines == rd.lines
        total == Len(lines)
        start == Max(1, best[2] - window_lines)
        end == Min(total, best[3] + window_lines)
        text == Capped(JoinLines(lines, start, end), max_file_chars)
        chunk_tokens == SpanTokens[dir[file].c][best[2]][best[3]]
        alt_start == Max(1, start - window_lines \div 2)
        alt_end == Min(total, end + window_lines \div 2)
        alt_text == Capped(JoinLines(lines, alt_start, alt_end), max_file_chars)
    IN IF rd.none THEN << <<"win:" \o file, file, 1, 1, "(unreadable file)">> >>
       ELSE IF Cardinality(chunk_tokens
                   \cap WindowTokens[dir[file].c][start][end][max_file_chars]) >= min_overlap
            THEN << <<"win:" \o file, file, start, end, text>> >>
       ELSE IF Cardinality(chunk_tokens
                   \cap WindowTokens[dir[file].c][alt_start][alt_end][max_file_chars])
                 >= min_overlap
            THEN << <<"win:" \o file, file, alt_start, alt_end, alt_text>> >>
       ELSE <<>>

RECURSIVE DeepWindows(_, _, _, _, _, _)
DeepWindows(ranked, n, dir, window_lines, max_file_chars, min_overlap) ==
    IF n > Len(ranked.files) THEN <<>>
    ELSE DeepWindow(ranked.best[ranked.files[n]], ranked.files[n], dir,
                    window_lines, max_file_chars, min_overlap)
           \o DeepWindows(ranked, n + 1, dir, window_lines, max_file_chars, min_overlap)

\* _expand_to_deep_contexts expanding every candidate file
ExpandDeepAllFiles(matches, chunks, dir, top_n_files, window_lines, max_file_chars, min_overlap) ==
    DeepWindows(RankedFiles(matches, chunks, Len(matches)), 1, dir,
                window_lines, max_file_chars, min_overlap)

_expand_to_deep_contexts(matches, chunks, dir, top_n_files, window_lines, max_file_chars, min_overlap) ==
    DeepWindows(RankedFiles(matches, chunks, top_n_files), 1, dir,
                window_lines, max_file_chars, min_overlap)

\* line 547: the question has an underscore or an upper-case letter
symbol_like(question) ==
    Contains(question, "_") \/ CharsOf(question) \cap CharsOf(UpperLetters) # {}

\* symbol_like of every question, computed once
SymbolLike == [q \in Queries |-> symbol_like(q)]

\* lines 542-550: the diversify flag and min_unique the walk runs with, from
\* SEANCE_DIVERSIFY_FILES, SEANCE_MIN_UNIQUE_FILES (0 = unset) and the question
Diversify(question, k, env_diversify) ==
    IF SymbolLike[question] /\ k <= 8 THEN FALSE ELSE env_diversify

MinUnique(question, k, env_min_unique) ==
    IF SymbolLike[question] /\ k <= 8 THEN 1
    ELSE IF env_min_unique = 0 THEN Max(1, Min(5, k)) ELSE env_min_unique

\* lines 560-566 and 582-588: the exact span of the chunk, read from the file now
Preview(meta, dir) ==
    LET rd == ReadLines(dir, meta.file)
    IN IF rd.none THEN "(unreadable chunk)"
       ELSE JoinLines(rd.lines, meta.start_line, meta.end_line)

\* lines 559-568 and 581-590: one candidate taken
Take(st, cid, meta, dir) ==
    [st EXCEPT !.seen_files = st.seen_files \cup {meta.file},
               !.contexts = Append(st.contexts,
                   <<cid, meta.file, meta.start_line, meta.end_line, Preview(meta, dir)>>),
               !.sources_out = Append(st.sources_out,
                   Citation(meta.file, meta.start_line, meta.end_line))]

\* FirstPass that never skips a candidate for its file
RECURSIVE FirstPassNoSkip(_, _, _, _, _, _, _, _)
FirstPassNoSkip(matches, chunks, dir, k, diversify, min_unique, n, st) ==
    IF n > Len(matches) THEN [st EXCEPT !.at = n]
    ELSE LET cid == matches[n][1]
         IN IF cid \notin DOMAIN chunks
            THEN FirstPassNoSkip(matches, chunks, dir, k, diversify, min_unique, n + 1, st)
            ELSE LET st1 == Take(st, cid, chunks[cid], dir)
                 IN IF Len(st1.contexts) >= k /\ Cardinality(st1.seen_files) >= min_unique
                    THEN [st1 EXCEPT !.at = n]
                    ELSE FirstPassNoSkip(matches, chunks, dir, k, diversify, min_unique,
                                         n + 1, st1)

\* lines 552-571: the walk over the candidates; at is the candidate the walk
\* stopped on (Len(matches) + 1 when it ran to the end)
RECURSIVE FirstPass(_, _, _, _, _, _, _, _)
FirstPass(matches, chunks, dir, k, diversify, min_unique, n, st) ==
    IF n > Len(matches) THEN [st EXCEPT !.at = n]
    ELSE LET cid == matches[n][1]
         IN IF cid \notin DOMAIN chunks
            THEN FirstPass(matches, chunks, dir, k, diversify, min_unique, n + 1, st)
            ELSE IF diversify /\ chunks[cid].file \in st.seen_files
            THEN FirstPass(matches, chunks, dir, k, diversify, min_unique, n + 1, st)
            ELSE LET st1 == Take(st, cid, chunks[cid], dir)
                 IN IF Len(st1.contexts) >= k /\ Cardinality(st1.seen_files) >= min_unique
                    THEN [st1 EXCEPT !.at = n]
                    ELSE FirstPass(matches, chunks, dir, k, diversify, min_unique, n + 1, st1)

\* lines 574-590: the second sweep
RECURSIVE SecondSweep(_, _, _, _, _, _, _, _)
SecondSweep(matches, chunks, dir, k, diversify, min_unique, n, st) ==
    IF n > Len(matches) THEN st
    ELSE IF Cardinality(st.seen_files) >= min_unique \/ Len(st.contexts) >= k THEN st
    ELSE LET cid == matches[n][1]
         IN IF cid \notin DOMAIN chunks \/ (diversify /\ chunks[cid].file \in st.seen_files)
            THEN SecondSweep(matches, chunks, dir, k, diversify, min_unique, n + 1, st)
            ELSE SecondSweep(matches, chunks, dir, k, diversify, min_unique, n + 1,
                             Take(st, cid, chunks[cid], dir))

\* lines 541-590: contexts and sources_out of the default strategy; first is
\* the number of contexts the first pass collected
DefaultContexts(matches, chunks, dir, question, k, env_diversify, env_min_unique) ==
    LET diversify == Diversify(question, k, env_diversify)
        min_unique == MinUnique(question, k, env_min_unique)
        st1 == FirstPass(matches, chunks, dir, k, diversify, min_unique, 1,
                 [contexts |-> <<>>, sources_out |-> <<>>, seen_files |-> {}, at |-> 0])
        st2 == IF Cardinality(st1.seen_files) < min_unique
               THEN SecondSweep(matches, chunks, dir, k, diversify, min_unique, 1, st1)
               ELSE st1
    IN [contexts |-> st2.contexts, sources_out |-> st2.sources_out,
        first |-> Len(st1.contexts), at |-> st1.at,
        diversify |-> diversify, min_unique |-> min_unique]

\* ------------------------------------------------------------------------
\* The assembly functions applied to bounded inputs: a Manifest built from
\* three files, the directory as it is when the question is asked, and the
\* candidate lists retrieve may hand over (distinct chunk ids, scores in
\* descending order; one id is of a chunk no longer in the Manifest)
\* ------------------------------------------------------------------------
MaxMatches == 3

AsmFiles == <<"a.py", "b.md", "c.txt">>

AsmIndexedDir == [p \in Range(AsmFiles) |->
                    [c |-> CHOOSE n \in 1..Len(AsmFiles) : AsmFiles[n] = p, r |-> TRUE]]

AsmManifest == ScanAndPrune(NewManifest(0), EmptyFn, AsmFiles, AsmIndexedDir, 12, 150, 1).man

\* the directory when the question is asked: as indexed, b.md unreadable,
\* or a.py rewritten to a shorter text
AsmDirs ==
    {AsmIndexedDir,
     [AsmIndexedDir EXCEPT !["b.md"].r = FALSE],
     [AsmIndexedDir EXCEPT !["a.py"].c = 3]}

StaleCid == make_chunk_id(1, 1, "h9")

AsmCids == {cid \in DOMAIN AsmManifest.chunks : AsmManifest.chunks[cid].start_line # 2}
             \cup {StaleCid}

AsmScores == {1 * Milli, 2 * Milli}

AsmMatches ==
    UNION {{m \in [1..n -> AsmCids \X AsmScores] :
                /\ \A i, j \in 1..n : i < j => m[i][1] # m[j][1] /\ m[i][2] >= m[j][2]}
           : n \in 0..MaxMatches}

WideInputs ==
    [op : {"wide"}, matches : AsmMatches, dir : AsmDirs, top_n_files : 0..Len(AsmFiles),
     window_lines : {0, 1}, max_chars : {5, 1200}]

DeepInputs ==
    [op : {"deep"}, matches : AsmMatches, dir : AsmDirs, top_n_files : 0..Len(AsmFiles),
     window_lines : {0, 120}, max_file_chars : DeepCaps, min_overlap : {1, 3}]

DefaultInputs ==
    [op : {"default"}, matches : AsmMatches, dir : AsmDirs,
     question : {"foo BAR", "where is qux?"}, k : 1..Len(AsmFiles),
     env_diversify : BOOLEAN, env_min_unique : {0, Len(AsmFiles)}]

InitAssemble ==
    /\ NothingIndexed
    /\ args = <<12, 150>>
    /\ call \in WideInputs \cup DeepInputs \cup DefaultInputs
    /\ ret = NoRet

\* lines 520-533
CallWide ==
    /\ call.op = "wide"
    /\ ret = NoRet
    /\ LET contexts == _expand_to_wide_contexts(call.matches, AsmManifest.chunks, call.dir,
                            call.top_n_files, call.window_lines, call.max_chars)
       IN ret' = [op |-> "wide", contexts |-> contexts, sources_out |-> CitationsOf(contexts)]
    /\ UNCHANGED <<fs, env, args, call, mandisk, idxdisk, pc, mem, clock, lastOp, seen,
                   before, pre, result>>

\* lines 535-539
CallDeep ==
    /\ call.op = "deep"
    /\ ret = NoRet
    /\ LET contexts == _expand_to_deep_contexts(call.matches, AsmManifest.chunks, call.dir,
                            call.top_n_files, call.window_lines, call.max_file_chars,
                            call.min_overlap)
       IN ret' = [op |-> "deep", contexts |-> contexts, sources_out |-> CitationsOf(contexts)]
    /\ UNCHANGED <<fs, env, args, call, mandisk, idxdisk, pc, mem, clock, lastOp, seen,
                   before, pre, result>>

\* lines 541-590
CallDefault ==
    /\ call.op = "default"
    /\ ret = NoRet
    /\ LET out == DefaultContexts(call.matches, AsmManifest.chunks, call.dir, call.question,
                                  call.k, call.env_diversify, call.env_min_unique)
       IN ret' = [op |-> "default", contexts |-> out.contexts,
                  sources_out |-> out.sources_out, first |-> out.first, at |-> out.at,
                  diversify |-> out.diversify, min_unique |-> out.min_unique]
    /\ UNCHANGED <<fs, env, args, call, mandisk, idxdisk, pc, mem, clock, lastOp, seen,
                   before, pre, result>>

NextAssemble ==
    \/ CallWide
    \/ CallDeep
    \/ CallDefault

SpecAssemble == InitAssemble /\ [][NextAssemble]_vars

\* C14: under each of the three strategies the citation list has the length
\* and the order of the window list, and the i-th citation is
\* "<file>:<start_line>-<end_line>" of the i-th window.
C14_CitationsParallel ==
    (Returned("wide") \/ Returned("deep") \/ Returned("default")) =>
        /\ Len(ret.sources_out) = Len(ret.contexts)
        /\ \A i \in 1..Len(ret.contexts) :
              ret.sources_out[i] =
                ret.contexts[i][2] \o ":" \o ToString(ret.contexts[i][3]) \o "-"
                    \o ToString(ret.contexts[i][4])

C14_Witness ==
    /\ Returned("default")
    /\ Len(ret.contexts) >= 2
    /\ ret.first < Len(ret.contexts)
    /\ ret.sources_out[2] = "a.py:3-3"

\* the files the candidates of a list belong to, and a file's sum of
\* candidate-chunk scores
CandidatesOf(matches, chunks, file) ==
    {i \in 1..Len(matches) :
        matches[i][1] \in DOMAIN chunks /\ chunks[matches[i][1]].file = file}

CandidateFiles(matches, chunks) ==
    {chunks[matches[i][1]].file : i \in {j \in 1..Len(matches) : matches[j][1] \in DOMAIN chunks}}

TotalScore(matches, chunks, file) ==
    SumOver([i \in 1..Len(matches) |-> matches[i][2]], CandidatesOf(matches, chunks, file))

\* T is a set of the F files with the highest sum of candidate-chunk scores
IsTopFiles(T, F, matches, chunks) ==
    /\ T \subseteq CandidateFiles(matches, chunks)
    /\ Cardinality(T) = Min(F, Cardinality(CandidateFiles(matches, chunks)))
    /\ \A f \in T, g \in CandidateFiles(matches, chunks) \ T :
          TotalScore(matches, chunks, f) >= TotalScore(matches, chunks, g)

WindowFiles(contexts) == {contexts[i][2] : i \in 1..Len(contexts)}

\* C15: for any candidate list and top_n_files = F >= 0 the wide strategy
\* returns at most F windows, no two from the same file; the files are the F
\* files with the highest sum of candidate-chunk scores; each window is that
\* file's best-scoring candidate chunk widened by window_lines (within the
\* file as it is now, when it can be read).
C15_WideBound ==
    Returned("wide") =>
        LET chunks == AsmManifest.chunks
            matches == call.matches
        IN /\ Len(ret.contexts) <= call.top_n_files
           /\ \A i, j \in 1..Len(ret.contexts) :
                 ret.contexts[i][2] = ret.contexts[j][2] => i = j
           /\ IsTopFiles(WindowFiles(ret.contexts), call.top_n_files, matches, chunks)
           /\ \A n \in 1..Len(ret.contexts) :
                 LET w == ret.contexts[n]
                 IN /\ \E i \in CandidatesOf(matches, chunks, w[2]) :
                          /\ matches[i][1] = w[1]
                          /\ \A j \in CandidatesOf(matches, chunks, w[2]) :
                                matches[i][2] >= matches[j][2]
                    /\ ~ReadLines(call.dir, w[2]).none =>
                          /\ w[3] = Max(1, chunks[w[1]].start_line - call.window_lines)
                          /\ w[4] = Min(Len(ReadLines(call.dir, w[2]).lines),
                                        chunks[w[1]].end_line + call.window_lines)

C15_Witness ==
    /\ Returned("wide")
    /\ call.top_n_files = 1
    /\ Cardinality(CandidateFiles(call.matches, AsmManifest.chunks)) >= 2
    /\ call.matches[1][1] \in DOMAIN AsmManifest.chunks
    /\ Len(ret.contexts) = 1
    /\ ret.contexts[1][2] # AsmManifest.chunks[call.matches[1][1]].file

\* C16: every window the deep strategy returns is of a file among the
\* top_n_files files by sum of candidate-chunk scores; with top_n_files = 1
\* only windows of the single file with the highest sum are returned.
C16_DeepBound ==
    Returned("deep") =>
        LET chunks == AsmManifest.chunks
            matches == call.matches
        IN /\ \E T \in SUBSET CandidateFiles(matches, chunks) :
                 /\ IsTopFiles(T, call.top_n_files, matches, chunks)
                 /\ WindowFiles(ret.contexts) \subseteq T
           /\ call.top_n_files = 1 =>
                 \A f \in WindowFiles(ret.contexts), g \in CandidateFiles(matches, chunks) :
                     TotalScore(matches, chunks, f) >= TotalScore(matches, chunks, g)

C16_Witness ==
    /\ Returned("deep")
    /\ call.top_n_files = 1
    /\ Cardinality(CandidateFiles(call.matches, AsmManifest.chunks)) >= 2
    /\ call.matches[1][1] \in DOMAIN AsmManifest.chunks
    /\ Len(ret.contexts) = 1
    /\ ret.contexts[1][2] # AsmManifest.chunks[call.matches[1][1]].file

\* the candidates (indices into matches) the first pass took, in window order
TakenAt(matches, contexts, n) == CHOOSE i \in 1..Len(matches) : matches[i][1] = contexts[n][1]

\* C17: the default strategy's first pass takes candidates in the order of
\* the list (score order); with diversification in force a candidate is passed
\* over exactly when its file already gave a window, so no two returned windows
\* are of the same file; the walk ends at the first window after which at
\* least k windows are collected and at least min_unique files contributed.
C17_DefaultWalk ==
    Returned("default") =>
        LET chunks == AsmManifest.chunks
            matches == call.matches
            first == SubSeq(ret.contexts, 1, ret.first)
            taken == {TakenAt(matches, first, n) : n \in 1..ret.first}
            visited == {i \in 1..Min(ret.at, Len(matches)) : matches[i][1] \in DOMAIN chunks}
            StopAt(j) == j >= call.k
                         /\ Cardinality(WindowFiles(SubSeq(first, 1, j))) >= ret.min_unique
        IN /\ \A n \in 1..ret.first : \E i \in visited : matches[i][1] = first[n][1]
           /\ \A n, m \in 1..ret.first :
                 n < m => /\ TakenAt(matches, first, n) < TakenAt(matches, first, m)
                          /\ matches[TakenAt(matches, first, n)][2]
                                >= matches[TakenAt(matches, first, m)][2]
           /\ \A i \in visited :
                 i \notin taken <=>
                    /\ ret.diversify
                    /\ \E j \in taken : j < i /\ chunks[matches[j][1]].file
                                                     = chunks[matches[i][1]].file
           /\ ret.diversify =>
                 \A n, m \in 1..Len(ret.contexts) :
                     ret.contexts[n][2] = ret.contexts[m][2] => n = m
           /\ \A j \in 1..(ret.first - 1) : ~StopAt(j)
           /\ ret.at <= Len(matches) =>
                 /\ ret.first >= 1
                 /\ StopAt(ret.first)
                 /\ TakenAt(matches, first, ret.first) = ret.at

C17_Witness ==
    /\ Returned("default")
    /\ ret.diversify
    /\ ret.at <= Len(call.matches)
    /\ ret.first = 2
    /\ \E i \in 1..ret.at :
          /\ call.matches[i][1] \in DOMAIN AsmManifest.chunks
          /\ \A n \in 1..ret.first : ret.contexts[n][1] # call.matches[i][1]

\* ------------------------------------------------------------------------
\* One question of chat against the index on disk: retrieve (line 516, k is
\* session.info.k times the strategy's multiplier SEANCE_WIDEN /
\* SEANCE_DEEP_MULT / SEANCE_WIDE_MULT), the Manifest reloaded (517), the
\* contexts assembled with the default knobs (518-590) and handed to
\* generate_answer as they are (606-618)
\* ------------------------------------------------------------------------
Strategies == {"default", "deep", "wide"}

AssembleContexts(strategy, k, mult) ==
    /\ pc = "retrieved"
    /\ result.st = "ok"
    /\ result.k = k * mult
    /\ LET chunks == mandisk.man.chunks
           contexts ==
             IF strategy = "wide"
             THEN _expand_to_wide_contexts(result.list, chunks, fs, Max(k, 5), 30, 1200)
             ELSE IF strategy = "deep"
             THEN _expand_to_deep_contexts(result.list, chunks, fs, 3, 120, 4000, 1)
             ELSE DefaultContexts(result.list, chunks, fs, result.query, k, TRUE, 0).contexts
           sources_out ==
             IF strategy = "default"
             THEN DefaultContexts(result.list, chunks, fs, result.query, k, TRUE, 0).sources_out
             ELSE CitationsOf(contexts)
       IN ret' = [op |-> strategy, contexts |-> contexts, sources_out |-> sources_out]
    /\ pc' = "assembled"
    /\ UNCHANGED <<fs, env, args, call, mandisk, idxdisk, mem, clock, lastOp, seen, before,
                   pre, result>>

\* lines 606-640: the answer is generated from contexts and the loop asks
\* for the next question
ChatAnswer ==
    /\ pc = "assembled"
    /\ pc' = "idle"
    /\ result' = NoResult
    /\ ret' = NoRet
    /\ UNCHANGED <<fs, env, args, call, mandisk, idxdisk, mem, clock, lastOp, seen, before, pre>>

NextChat ==
    \/ \E p \in Paths, c \in Contents : WriteFile(p, c)
    \/ BuildStart
    \/ BuildScan
    \/ BuildSaveManifest
    \/ BuildSaveIndex
    \/ \E query \in Queries, k \in 0..MaxK, retriever \in Retrievers : Retrieve(query, k, retriever)
    \/ ChatTurnEnd
    \/ \E strategy \in Strategies, k \in 1..MaxK, mult \in 1..MaxK :
          AssembleContexts(strategy, k, mult)
    \/ ChatAnswer

SpecChat == Init /\ [][NextChat]_vars

\* C18: after any strategy, a window in which no meaningful term of the
\* question (short and common words removed) occurs literally is below every
\* minimum of at least one hit, so it is handed on only when no window of the
\* result has a hit: the filter drops it unless that would empty the result.
C18_LowHitWindowsDropped ==
    pc = "assembled" =>
        LET terms == {t \in Range(QueryTokens[result.query]) :
                         Len(t) >= 3 /\ t \notin {"where", "the", "and", "for"}}
            HasHit(text) == \E t \in terms : Contains(Lower(text), t)
        IN (\E n \in 1..Len(ret.contexts) : HasHit(ret.contexts[n][5]))
              => \A n \in 1..Len(ret.contexts) : HasHit(ret.contexts[n][5])

\* C19: after every completed build_index pass Manifest.files has an entry
\* exactly for the files scanned in that pass (a file gone from the directory
\* has no entry any more) and the entry holds the file's present hash.
C19_FilesExactlyScanned ==
    Completed
        => /\ DOMAIN mandisk.man.files = Scannable(fs, env)
           /\ \A p \in Scannable(fs, env) : mandisk.man.files[p] = file_hash(fs[p])

\* C20: after every completed build_index pass the file field of every chunk
\* in Manifest.chunks is a key of Manifest.files.
C20_ChunkFileInFiles ==
    Completed
        => \A cid \in DOMAIN mandisk.man.chunks :
              mandisk.man.chunks[cid].file \in DOMAIN mandisk.man.files

\* a completed pass after earlier passes and file changes that left chunks of
\* one file next to the entry of a file that owns none
C20_Witness ==
    /\ Completed
    /\ AfterEarlierPass
    /\ clock >= 3
    /\ mandisk.man.chunks # EmptyFn
    /\ \E p \in DOMAIN mandisk.man.files : OwnedBy(mandisk.man, p) = {}
    /\ \E p \in Paths : before.fs[p] # fs[p]

\* ------------------------------------------------------------------------
\* connect called any number of times between writes and build passes
\* ------------------------------------------------------------------------
NextConnect ==
    \/ \E p \in Paths, c \in Contents : WriteFile(p, c)
    \/ BuildStart
    \/ BuildScan
    \/ BuildSaveManifest
    \/ BuildSaveIndex
    \/ CallConnect

SpecConnect == Init /\ [][NextConnect]_vars

\* C21: a call of connect that finds no Manifest persists and returns one with
\* empty files and chunks and created_at = updated_at; a call that finds a
\* Manifest returns it as it is persisted and leaves the persisted Manifest
\* as it was; no call changes the Inverted Index. This holds of every call,
\* also of a call that follows another (a step from idle to idle that leaves
\* the directory alone is a call of connect).
C21_ConnectIdempotent ==
    [][(pc = "idle" /\ pc' = "idle" /\ fs' = fs /\ ret'.op = "connect") =>
          /\ idxdisk' = idxdisk
          /\ IF mandisk.st = "absent"
             THEN /\ mandisk'.st = "ok"
                  /\ ret'.man = mandisk'.man
                  /\ ret'.man.files = EmptyFn
                  /\ ret'.man.chunks = EmptyFn
                  /\ ret'.man.created_at = ret'.man.updated_at
             ELSE /\ mandisk' = mandisk
                  /\ ret'.man = mandisk.man]_vars

\* connect has returned a Manifest with chunks that a pass had persisted
C21_Witness ==
    /\ ret.op = "connect"
    /\ ret.man.chunks # EmptyFn
    /\ ret.man = mandisk.man
    /\ ret.man.updated_at > ret.man.created_at

\* the tokens of the text build_index chunked into chunk meta (lines 248-265):
\* the span of the content with the chunk's hash, under the arguments in force
TokensOfChunk(meta) ==
    LET c == CHOOSE d \in Contents : sha256_bytes(d) = meta.text_hash
        spans == ChunkTable[c][args]
        n == CHOOSE i \in 1..Len(spans) :
                spans[i].start_line = meta.start_line /\ spans[i].end_line = meta.end_line
    IN spans[n].toks

\* C22: after every completed build_index pass, for every chunk c of
\* Manifest.chunks and every token t the frequency inverted[t][c] is the
\* number of occurrences of t among the lower-cased tokens of c's text, and
\* there is a posting exactly when that number is not zero.
C22_FrequenciesExact ==
    Completed
        => \A cid \in DOMAIN mandisk.man.chunks :
              LET toks == TokensOfChunk(mandisk.man.chunks[cid])
              IN \A tok \in DOMAIN idxdisk.inv \cup Range(toks) :
                    /\ Tf(idxdisk.inv, tok, cid) = CountTok(toks, tok)
                    /\ cid \in DOMAIN idxdisk.inv[tok] <=> CountTok(toks, tok) > 0

\* the line spans greedy_line_chunk gives for a content, and the line spans
\* of the chunks a file owns in a Manifest
SpansOf(c) ==
    {<<ChunkTable[c][args][i].start_line, ChunkTable[c][args][i].end_line>> :
        i \in 1..Len(ChunkTable[c][args])}

OwnedSpans(man, rel) ==
    {<<man.chunks[cid].start_line, man.chunks[cid].end_line>> : cid \in OwnedBy(man, rel)}

\* C23: after every completed build_index pass a file scanned in the pass
\* that is readable, has a line and whose hash is Manifest.files[path] owns
\* exactly the spans the chunker gives for its content, whatever deletions,
\* restorations and filter changes came before. Stated for the histories in
\* which no other file was ever indexed (Manifest.files never loses a key), so
\* that no two contents in the history can be equal.
C23_CacheCoherent ==
    Completed
        => \A p \in Scannable(fs, env) :
              (/\ DOMAIN mandisk.man.files \subseteq {p}
               /\ fs[p].r
               /\ Len(Text(fs[p].c)) >= 1
               /\ Get(mandisk.man.files, p) = file_hash(fs[p]))
                  => OwnedSpans(mandisk.man, p) = SpansOf(fs[p].c)

\* C24: when two scanned files hold the same content, after any sequence of
\* completed build_index passes each of them owns its own chunks in
\* Manifest.chunks: the spans the chunker gives for the content.
C24_EqualContentFilesOwnChunks ==
    Completed
        => \A p \in Scannable(fs, env) : \A q \in Scannable(fs, env) \ {p} :
              (fs[p].c = fs[q].c /\ fs[p].r /\ fs[q].r)
                  => OwnedSpans(mandisk.man, p) = SpansOf(fs[p].c)

\* ------------------------------------------------------------------------
\* greedy_line_chunk run one pass of its outer loop at a time (lines 83-99);
\* ret holds start and chunks while the loop runs
\* ------------------------------------------------------------------------
\* OuterIteration continuing at next_start
OuterIterationBackward(lines, start, max_chars, overlap) ==
    LET filled == FillBlock(lines, start, 0, max_chars)
        i == IF filled = start THEN start + 1 ELSE filled
        overlap_lines == Max(0, Min(overlap \div 80, i - start))
    IN [start |-> IF overlap_lines # 0 THEN i - overlap_lines ELSE i,
        chunk |-> <<start + 1, i,
                    IF filled = start THEN PyPrefix(lines[start + 1], max_chars)
                    ELSE JoinLines(lines, start + 1, i)>>]

\* lines 84-99: the chunk one pass of the loop appends and the start it sets
OuterIteration(lines, start, max_chars, overlap) ==
    LET filled == FillBlock(lines, start, 0, max_chars)
        empty == filled = start
        i == IF empty THEN start + 1 ELSE filled
        chunk_text == IF empty THEN PyPrefix(lines[start + 1], max_chars)
                      ELSE JoinLines(lines, start + 1, i)
        overlap_lines == Max(0, Min(overlap \div 80, i - start))
        next_start == IF overlap_lines # 0 THEN i - overlap_lines ELSE i
    IN [start |-> Max(next_start, i), chunk |-> <<start + 1, i, chunk_text>>]

\* lines 80-82
ChunkLoopEnter ==
    /\ call.op = "greedy_line_chunk"
    /\ ret = NoRet
    /\ ret' = [op |-> "chunking", start |-> 0, chunks |-> <<>>]
    /\ UNCHANGED <<fs, env, args, mandisk, idxdisk, pc, mem, clock, lastOp, seen, before,
                   pre, result, call>>

\* lines 83-99, one pass
ChunkLoopStep ==
    /\ ret.op = "chunking"
    /\ ret.start < Len(call.lines)
    /\ LET it == OuterIteration(call.lines, ret.start, call.max_chars, call.overlap)
       IN ret' = [op |-> "chunking", start |-> it.start,
                  chunks |-> Append(ret.chunks, it.chunk)]
    /\ UNCHANGED <<fs, env, args, mandisk, idxdisk, pc, mem, clock, lastOp, seen, before,
                   pre, result, call>>

\* lines 83 and 100: the loop condition fails, chunks is returned
ChunkLoopExit ==
    /\ ret.op = "chunking"
    /\ ~(ret.start < Len(call.lines))
    /\ ret' = [op |-> "greedy_line_chunk", chunks |-> ret.chunks]
    /\ UNCHANGED <<fs, env, args, mandisk, idxdisk, pc, mem, clock, lastOp, seen, before,
                   pre, result, call>>

NextChunkLoop ==
    \/ ChunkLoopEnter
    \/ ChunkLoopStep
    \/ ChunkLoopExit

\* the call keeps running: a step that can be taken is taken
SpecChunkLoop == InitChunk /\ [][NextChunkLoop]_vars /\ WF_vars(NextChunkLoop)

\* C25: greedy_line_chunk returns for every text, max_chars and overlap, and
\* the start_line of every chunk it has emitted is greater than the
\* start_line of the chunk before it.
C25_TerminatesStartsIncrease ==
    /\ <>(ret.op = "greedy_line_chunk")
    /\ [](ret.op \in {"chunking", "greedy_line_chunk"} =>
            \A n \in 1..(Len(ret.chunks) - 1) : ret.chunks[n + 1][1] > ret.chunks[n][1])

\* the call returned several chunks of a text with a line longer than
\* max_chars, for max_chars <= 0 and an overlap of more lines than a chunk has
C25_Witness ==
    /\ ret.op = "greedy_line_chunk"
    /\ Len(ret.chunks) >= 3
    /\ call.max_chars <= 0
    /\ call.overlap \div 80 > 1
    /\ ret.chunks = greedy_line_chunk(call.lines, call.max_chars, call.overlap)

\* C26: for max_chars >= 1 every chunk's text has at most max_chars
\* characters; a chunk whose first line fits (its length plus one separator
\* is within max_chars) is whole lines, joined by newlines, taken as long as
\* the sum of their lengths plus one separator each stays within max_chars;
\* a first line that does not fit is a chunk of its own whose text is the
\* line's first max_chars characters.
C26_ChunkSize ==
    (Returned("greedy_line_chunk") /\ call.max_chars >= 1)
        => \A n \in 1..Len(ret.chunks) :
              LET lines == call.lines
                  s == ret.chunks[n][1]
                  e == ret.chunks[n][2]
                  text == ret.chunks[n][3]
                  Acc(to) == SumOver([j \in s..to |-> Len(lines[j]) + 1], s..to)
              IN /\ Len(text) <= call.max_chars
                 /\ IF Len(lines[s]) + 1 <= call.max_chars
                    THEN /\ text = JoinLines(lines, s, e)
                         /\ Acc(e) <= call.max_chars
                         /\ e = Len(lines) \/ Acc(e + 1) > call.max_chars
                    ELSE /\ e = s
                         /\ text = SubSeq(lines[s], 1, call.max_chars)

\* chunks of several whole lines next to a chunk that is a cut line, and a
\* line of exactly max_chars characters that is a chunk of its own
C26_Witness ==
    /\ Returned("greedy_line_chunk")
    /\ call.max_chars >= 1
    /\ \E n \in 1..Len(ret.chunks) : ret.chunks[n][2] > ret.chunks[n][1]
    /\ \E n \in 1..Len(ret.chunks) :
          Len(ret.chunks[n][3]) < Len(call.lines[ret.chunks[n][1]])
    /\ \E n \in 1..Len(ret.chunks) :
          /\ ret.chunks[n][1] = ret.chunks[n][2]
          /\ Len(call.lines[ret.chunks[n][1]]) = call.max_chars

\* ------------------------------------------------------------------------
\* the score of one chunk for a one-token query, as a function of the
\* chunk's term frequency (seance_query.py 73-216)
\* ------------------------------------------------------------------------
\* longest chunk, in tokens
MaxDocLen == 4

K1Choices == {1, 12, 30}
BChoices == {0, 75, 100}
\* lines 205-213: no pattern, a call site, a definition and a call site
BonusChoices == {0, PatternBoost * Milli, (PatternBoost * 5 * Milli) \div 2}

\* a corpus of N chunks of total tokens in all, n_t of them holding the
\* token, and the chunk: dl tokens, tf of them the query token
Bm25Inputs ==
    {[op |-> "bm25_score", N |-> N, n_t |-> n_t, symbolish |-> sy, dl |-> dl, tf |-> tf,
      total |-> dl + others * (N - 1), k1 |-> k1, b |-> b, bonus |-> bonus] :
        N \in 1..3, n_t \in 1..3, sy \in BOOLEAN, dl \in 1..MaxDocLen, tf \in 1..MaxDocLen,
        others \in {1, 3}, k1 \in K1Choices, b \in BChoices, bonus \in BonusChoices}

\* lines 88-158 and 205-216 for one query token and one chunk: idf, symbol
\* boost, BM25 part, presence boost, pattern boost
Bm25ScoreOf(c) ==
    LET base == Idf(c.N, c.n_t)
        qt_idf == IF c.symbolish THEN base * SymbolIdfBoost ELSE base
    IN Bm25PartWith(qt_idf, c.tf, c.dl, c.N, c.total, c.k1, c.b)
         + (IF c.symbolish THEN 2 ELSE 1) * KeywordBoost * Milli
         + c.bonus

InitBm25 ==
    /\ NothingIndexed
    /\ call \in {c \in Bm25Inputs : c.n_t <= c.N /\ c.tf <= c.dl /\ (c.N = 1 => c.total = c.dl)}
    /\ args = <<0, 0>>
    /\ ret = NoRet

\* the chunk is scored (tf_before 0: not scored before)
CallBm25Score ==
    /\ call.op = "bm25_score"
    /\ ret = NoRet
    /\ ret' = [op |-> "bm25_score", score |-> Bm25ScoreOf(call), tf_before |-> 0,
               before |-> 0]
    /\ UNCHANGED <<fs, env, args, mandisk, idxdisk, pc, mem, clock, lastOp, seen, before,
                   pre, result, call>>

\* the same chunk is scored again with more occurrences of the token in the
\* same number of tokens, everything else as before
RescoreHigherTf ==
    /\ ret.op = "bm25_score"
    /\ \E tf \in (call.tf + 1)..call.dl :
          /\ call' = [call EXCEPT !.tf = tf]
          /\ ret' = [op |-> "bm25_score", score |-> Bm25ScoreOf(call'),
                     tf_before |-> call.tf, before |-> ret.score]
    /\ UNCHANGED <<fs, env, args, mandisk, idxdisk, pc, mem, clock, lastOp, seen, before,
                   pre, result>>

NextBm25 ==
    \/ CallBm25Score
    \/ RescoreHigherTf

SpecBm25 == InitBm25 /\ [][NextBm25]_vars

\* C27: with document length, avgdl, idf, k1 > 0 and 0 <= b <= 1 fixed, a
\* higher term frequency of the query token never gives the chunk a lower
\* score
C27_Bm25Monotone ==
    (ret.op = "bm25_score" /\ ret.tf_before > 0 /\ call.k1 > 0 /\ call.b >= 0 /\ call.b <= 100)
        => /\ call.tf > ret.tf_before
           /\ ret.score >= ret.before

\* the score rose with the term frequency, for a boosted token in a chunk
\* longer than the average and full length normalisation
C27_Witness ==
    /\ ret.op = "bm25_score"
    /\ ret.tf_before > 0
    /\ ret.score > ret.before
    /\ call.symbolish
    /\ call.b = 100
    /\ call.dl * call.N > call.total
    /\ call.tf - ret.tf_before >= 2

\* C28: the default strategy returns at most k windows whatever the
\* candidates, SEANCE_DIVERSIFY_FILES and SEANCE_MIN_UNIQUE_FILES are, and
\* with k = 1 exactly one window when a candidate chunk is in the Manifest
C28_DefaultAtMostK ==
    Returned("default")
        => /\ Len(ret.contexts) <= call.k
           /\ (call.k = 1 /\ \E n \in 1..Len(call.matches) :
                                call.matches[n][1] \in DOMAIN AsmManifest.chunks)
                 => Len(ret.contexts) = 1

\* C29: the default strategy returns no chunk twice, with diversification
\* on or off, and every window the second sweep adds is from a file that
\* had not contributed a window before it
C29_DefaultNoRepeats ==
    Returned("default")
        => /\ \A m, n \in 1..Len(ret.contexts) :
                 ret.contexts[m][1] = ret.contexts[n][1] => m = n
           /\ \A n \in (ret.first + 1)..Len(ret.contexts) :
                 \A m \in 1..(n - 1) : ret.contexts[m][2] # ret.contexts[n][2]

\* C30: a window of any strategy whose file is readable and as it was
\* indexed has as text exactly the file's lines start_line..end_line joined
\* by newlines, and that range holds the lines of the candidate chunk the
\* window was built around, also after the wide and deep character caps
C30_WindowTextIsCitedRange ==
    ret.op \in {"wide", "deep", "default"}
        => \A n \in 1..Len(ret.contexts) :
              LET w == ret.contexts[n]
                  chunks == AsmManifest.chunks
                  Around(cid) == /\ cid \in DOMAIN chunks
                                 /\ chunks[cid].file = w[2]
                                 /\ w[3] <= chunks[cid].start_line
                                 /\ chunks[cid].end_line <= w[4]
              IN call.dir[w[2]] = AsmIndexedDir[w[2]]
                   => /\ w[5] = JoinLines(Text(call.dir[w[2]].c), w[3], w[4])
                      /\ IF ret.op = "deep"
                         THEN \E m \in 1..Len(call.matches) : Around(call.matches[m][1])
                         ELSE Around(w[1])

====
